---- MODULE Spec2Model ----
(***************************************************************************)
(* Model of data_preparation/split_layout.py: the LayoutProcessor pipeline *)
(* (build_raw_records, merge_paragraphs_for_embedding_chunks,              *)
(* merge_sparse_sections, finalize_ordering) over an in-memory layout.     *)
(*                                                                         *)
(* Strings are sequences.  A reference or an identifier is a sequence of   *)
(* one-character strings.  A text is a sequence of items [w, n]: n copies  *)
(* of the word w separated by single blanks, or one whitespace character   *)
(* (w = " " or w = "\n", n = 1).  None is the empty option <<>>, a value v *)
(* that may be None is carried as <<v>>.                                   *)
(***************************************************************************)
EXTENDS Integers, Sequences, FiniteSets, TLC

VARIABLES
    sections,           \* layout.sections: sequence of element-reference lists
    paragraphs,         \* layout.paragraphs
    tables,             \* layout.tables
    section_records,    \* self.section_records
    paragraph_records,  \* self.paragraph_records
    idx,                \* loop index of merge_sparse_sections (1-based)
    pc,                 \* position of process()
    run,                \* 1: first run, 2: run on the re-fed output, 3: second call of process()
    first_out,          \* what the first run returned (for the re-fed run)
    section_text_map,   \* build_section_text_map(sections, paragraphs), by section position
    paragraph_counter   \* build_raw_records' paragraph_counter where its loop is taken up

vars == <<sections, paragraphs, tables, section_records, paragraph_records,
          idx, pc, run, first_out, section_text_map, paragraph_counter>>

----------------------------------------------------------------------------
(* Bounds of the explored inputs *)

MaxSections == 3        \* sections of a layout made of SectionShapes
MaxElems == 3           \* element references of an enumerated layout, all sections together
MaxStageSections == 2   \* sections of an enumerated layout
MaxCells == 3           \* cells of an enumerated table
MaxCounterDigits == 5   \* digits of the largest paragraph_counter a build is taken up at
MaxRoleSources == 2     \* source paragraphs of an enumerated role/text layout
MaxSparseSections == 3  \* sections of a layout made of SparseShapes

(* Program constants *)

MIN_EMBEDDING_CHUNK_TOKENS == 80
MAX_EMBEDDING_CHUNK_TOKENS == 350
MaxKindLen == 15
MaxDigits == 5
SectionIdWidth == 4
ParagraphIdWidth == 5
MaxHeadingWords == 12

----------------------------------------------------------------------------
(* Generic helpers *)

None == <<>>
Some(v) == <<v>>

Min(S) == CHOOSE x \in S : \A y \in S : x <= y

(* sorted(S): the k-th element is the one with k - 1 smaller ones *)
SortedSeq(S) ==
    [k \in 1..Cardinality(S) |-> CHOOSE x \in S : Cardinality({y \in S : y < x}) = k - 1]

Range(s) == {s[i] : i \in 1..Len(s)}

RECURSIVE Flatten(_)
Flatten(ss) == IF ss = <<>> THEN <<>> ELSE Head(ss) \o Flatten(Tail(ss))

RECURSIVE JoinWith(_, _)
JoinWith(sep, ss) ==
    IF ss = <<>> THEN <<>>
    ELSE IF Len(ss) = 1 THEN ss[1]
    ELSE ss[1] \o sep \o JoinWith(sep, Tail(ss))

----------------------------------------------------------------------------
(* Characters, numbers and identifiers *)

LowerLetters == {"a", "b", "c", "d", "e", "f", "g", "h", "i", "j", "k", "l", "m",
                 "n", "o", "p", "q", "r", "s", "t", "u", "v", "w", "x", "y", "z"}
DigitChars == <<"0", "1", "2", "3", "4", "5", "6", "7", "8", "9">>
Digits == Range(DigitChars)

DigitValue(c) == (CHOOSE d \in 1..10 : DigitChars[d] = c) - 1

RECURSIVE ParseInt(_)
ParseInt(ds) ==
    IF ds = <<>> THEN 0
    ELSE 10 * ParseInt(SubSeq(ds, 1, Len(ds) - 1)) + DigitValue(ds[Len(ds)])

RECURSIVE FormatInt(_)
FormatInt(n) ==
    IF n < 10 THEN <<DigitChars[n + 1]>>
    ELSE FormatInt(n \div 10) \o <<DigitChars[(n % 10) + 1]>>

RECURSIVE ZeroPad(_, _)
ZeroPad(ds, width) == IF Len(ds) >= width THEN ds ELSE ZeroPad(<<"0">> \o ds, width)

SectionId(n) == <<"s", "e", "c", "_">> \o ZeroPad(FormatInt(n), SectionIdWidth)
ParagraphId(n) == <<"p", "a", "r", "_">> \o ZeroPad(FormatInt(n), ParagraphIdWidth)

PARAGRAPHS == <<"p", "a", "r", "a", "g", "r", "a", "p", "h", "s">>
TABLES == <<"t", "a", "b", "l", "e", "s">>
REQUIRED_ELEMENTS == {PARAGRAPHS, TABLES}
HEADING_ROLES == {"title", "heading"}
PARAGRAPH_KIND_TEXT == "text"
PARAGRAPH_KIND_TABLE_TEXT == "table_text"

(* re.search(ID_PATTERN, element_id): a "/", 1..15 lowercase letters, a "/", *)
(* 1..5 digits, then the end of the string ($ also matches before one        *)
(* trailing newline).  ok = FALSE stands for the ValueError.                 *)
MatchEnds(ref) ==
    {Len(ref)} \cup (IF Len(ref) > 0 /\ ref[Len(ref)] = "\n" THEN {Len(ref) - 1} ELSE {})

Slashes(ref) == {i \in 1..Len(ref) : ref[i] = "/"}

IdMatches(ref) ==
    {m \in Slashes(ref) \X Slashes(ref) \X MatchEnds(ref) :
        /\ m[2] - m[1] - 1 \in 1..MaxKindLen
        /\ \A k \in (m[1] + 1)..(m[2] - 1) : ref[k] \in LowerLetters
        /\ m[3] - m[2] \in 1..MaxDigits
        /\ \A k \in (m[2] + 1)..m[3] : ref[k] \in Digits}

LayoutElementId(ref) ==
    LET ms == IdMatches(ref)
    IN  IF ms = {}
        THEN [ok |-> FALSE, type |-> <<>>, id_as_num |-> 0]
        ELSE LET m == CHOOSE x \in ms : \A y \in ms : x[1] <= y[1]
             IN  [ok |-> TRUE,
                  type |-> SubSeq(ref, m[1] + 1, m[2] - 1),
                  id_as_num |-> ParseInt(SubSeq(ref, m[2] + 1, m[3]))]

ElementRef(kind, n) == <<"/">> \o kind \o <<"/">> \o FormatInt(n)

----------------------------------------------------------------------------
(* Texts *)

NL == [w |-> "\n", n |-> 1]
SP == [w |-> " ", n |-> 1]
PIPE == [w |-> "|", n |-> 1]
Words(label, count) == <<[w |-> label, n |-> count]>>

IsSpace(item) == item.w \in {" ", "\n"}

UpperWords == {"A", "B", "C", "SUMMARY", "HEADER"}
LowerWords == {"a", "b", "c", "d", "e", "x"}
MixedWords == {"Notes"}

RECURSIVE LStrip(_)
LStrip(t) == IF t # <<>> /\ IsSpace(Head(t)) THEN LStrip(Tail(t)) ELSE t

RECURSIVE RStrip(_)
RStrip(t) ==
    IF t # <<>> /\ IsSpace(t[Len(t)]) THEN RStrip(SubSeq(t, 1, Len(t) - 1)) ELSE t

Strip(t) == RStrip(LStrip(t))

RECURSIVE SumWords(_)
SumWords(t) ==
    IF t = <<>> THEN 0
    ELSE (IF IsSpace(Head(t)) THEN 0 ELSE Head(t).n) + SumWords(Tail(t))

(* len(text.split()): items that touch without whitespace form one word *)
SplitCount(t) ==
    SumWords(t) - Cardinality({i \in 1..(Len(t) - 1) : ~IsSpace(t[i]) /\ ~IsSpace(t[i + 1])})

IsUpper(t) ==
    /\ \E i \in 1..Len(t) : t[i].w \in UpperWords \cup MixedWords
    /\ \A i \in 1..Len(t) : t[i].w \notin LowerWords \cup MixedWords

(* the fallback of _token_count (no tokenizer loaded) *)
token_count(text) ==
    LET clean_text == Strip(text)
    IN  IF clean_text = <<>> THEN 0 ELSE SplitCount(clean_text)

(* faulty variant: the minimum must be exceeded, not only met *)
is_naturally_sized_chunk_strict(text) ==
    token_count(Strip(text)) > MIN_EMBEDDING_CHUNK_TOKENS

is_naturally_sized_chunk(text) ==
    token_count(Strip(text)) >= MIN_EMBEDDING_CHUNK_TOKENS

join_text(base_text, append_text) ==
    IF base_text = <<>> THEN append_text
    ELSE IF append_text = <<>> THEN base_text
    ELSE base_text \o <<NL>> \o append_text

fallback_heading_like(text) ==
    IF text = <<>> THEN FALSE
    ELSE IF SplitCount(text) > MaxHeadingWords THEN FALSE
    ELSE IsUpper(text)

(* bounding_regions is a sequence of page numbers; 0 is a region without a *)
(* page_number; None and the empty list are both <<>>.                     *)
NoPage == 0
extract_pages(bounding_regions) ==
    IF bounding_regions = <<>> THEN <<>>
    ELSE SortedSeq({p \in Range(bounding_regions) : p # NoPage})

(* faulty variant: heading-like text paragraphs count as body text *)
is_body_text_paragraph_KindOnly(paragraph) ==
    paragraph.kind = PARAGRAPH_KIND_TEXT

is_body_text_paragraph(paragraph) ==
    paragraph.kind = PARAGRAPH_KIND_TEXT /\ ~paragraph.is_heading_like

----------------------------------------------------------------------------
(* Tables.  A cell is [row_index, column_index, content]; an index that is *)
(* None is NoIndex.                                                        *)

NoIndex == -1

CellRow(cell) == IF cell.row_index # NoIndex THEN cell.row_index ELSE 0
CellCol(cell) == IF cell.column_index # NoIndex THEN cell.column_index ELSE 0

(* sorted(rows[row_idx], key=col): stable, ties keep the order of the cells *)
RECURSIVE SortRowCells(_, _)
SortRowCells(cells, left) ==
    IF left = {} THEN <<>>
    ELSE LET k == CHOOSE i \in left : \A j \in left :
                      \/ CellCol(cells[i]) < CellCol(cells[j])
                      \/ CellCol(cells[i]) = CellCol(cells[j]) /\ i <= j
         IN  <<Strip(cells[k].content)>> \o SortRowCells(cells, left \ {k})

flatten_table_to_text(table) ==
    LET cells == table.cells
        row_ids == SortedSeq({CellRow(cells[i]) : i \in 1..Len(cells)})
        line(r) == JoinWith(<<SP, PIPE, SP>>,
                            SortRowCells(cells, {i \in 1..Len(cells) : CellRow(cells[i]) = r}))
        lines == [k \in 1..Len(row_ids) |-> line(row_ids[k])]
    IN  Strip(JoinWith(<<NL>>, lines))

----------------------------------------------------------------------------
(* Records *)

SectionRecord(section_id, section_order) ==
    [section_id |-> section_id,
     section_order |-> section_order,
     title |-> None,
     pages |-> <<>>,
     paragraph_ids |-> <<>>,
     merged_from_section_ids |-> <<>>,
     is_heading_only_original |-> FALSE,
     inherited_headings |-> <<>>]

(* faulty variant: the uppercase heuristic is consulted whatever the role *)
HeadingLike_RoleOrHeuristic(role, text) ==
    (role # None /\ role[1] \in HEADING_ROLES) \/ fallback_heading_like(text)

(* line 119: role in HEADING_ROLES if role else _fallback_heading_like(text) *)
HeadingLike(role, text) ==
    IF role # None /\ role[1] # "" THEN role[1] \in HEADING_ROLES
    ELSE fallback_heading_like(text)

paragraph_record_from_layout(srcs, paragraph_idx, paragraph_id, section_id, order_in_section, layout_ref) ==
    IF paragraph_idx >= Len(srcs) THEN None
    ELSE LET paragraph == srcs[paragraph_idx + 1]
             text == Strip(paragraph.content)
             role == paragraph.role
             is_heading_like == HeadingLike(role, text)
         IN  Some([paragraph_id |-> paragraph_id,
                   section_id |-> section_id,
                   order_in_section |-> order_in_section,
                   kind |-> PARAGRAPH_KIND_TEXT,
                   text |-> text,
                   pages |-> extract_pages(paragraph.bounding_regions),
                   layout_refs |-> <<layout_ref>>,
                   role |-> role,
                   is_heading_like |-> is_heading_like,
                   merged_from_ids |-> <<paragraph_id>>])

paragraph_record_from_table(srcs, table_idx, paragraph_id, section_id, order_in_section, layout_ref) ==
    IF table_idx >= Len(srcs) THEN None
    ELSE LET table == srcs[table_idx + 1]
         IN  Some([paragraph_id |-> paragraph_id,
                   section_id |-> section_id,
                   order_in_section |-> order_in_section,
                   kind |-> PARAGRAPH_KIND_TABLE_TEXT,
                   text |-> flatten_table_to_text(table),
                   pages |-> extract_pages(table.bounding_regions),
                   layout_refs |-> <<layout_ref>>,
                   role |-> None,
                   is_heading_like |-> FALSE,
                   merged_from_ids |-> <<paragraph_id>>])

(* faulty variant: no check of the reference's kind, any other kind is read as a table *)
BuildElement_NoKindFilter(st, element_ref, srcPars, srcTabs) ==
    LET parsed_ref == LayoutElementId(element_ref)
    IN  IF ~parsed_ref.ok THEN st
        ELSE LET order == Len(st.sec.paragraph_ids) + 1
                 made == IF parsed_ref.type = PARAGRAPHS
                         THEN paragraph_record_from_layout(
                                  srcPars, parsed_ref.id_as_num, ParagraphId(st.counter),
                                  st.sec.section_id, order, element_ref)
                         ELSE paragraph_record_from_table(
                                  srcTabs, parsed_ref.id_as_num, ParagraphId(st.counter),
                                  st.sec.section_id, order, element_ref)
             IN  IF made = None THEN st
                 ELSE LET p == made[1]
                      IN  [sec |-> [st.sec EXCEPT
                                      !.paragraph_ids = Append(@, p.paragraph_id),
                                      !.pages = SortedSeq(Range(@) \cup Range(p.pages)),
                                      !.title = IF @ = None /\ p.is_heading_like
                                                THEN Some(p.text) ELSE @],
                           pars |-> Append(st.pars, p),
                           counter |-> st.counter + 1]

(* One element reference of build_raw_records' inner loop.  st is          *)
(* [sec, pars, counter]: the section record being filled, the paragraph    *)
(* records appended so far and paragraph_counter.                          *)
BuildElement(st, element_ref, srcPars, srcTabs) ==
    LET parsed_ref == LayoutElementId(element_ref)
    IN  IF ~parsed_ref.ok THEN st
        ELSE IF parsed_ref.type \notin REQUIRED_ELEMENTS THEN st
        ELSE LET order == Len(st.sec.paragraph_ids) + 1
                 made == IF parsed_ref.type = PARAGRAPHS
                         THEN paragraph_record_from_layout(
                                  srcPars, parsed_ref.id_as_num, ParagraphId(st.counter),
                                  st.sec.section_id, order, element_ref)
                         ELSE paragraph_record_from_table(
                                  srcTabs, parsed_ref.id_as_num, ParagraphId(st.counter),
                                  st.sec.section_id, order, element_ref)
             IN  IF made = None THEN st
                 ELSE LET p == made[1]
                      IN  [sec |-> [st.sec EXCEPT
                                      !.paragraph_ids = Append(@, p.paragraph_id),
                                      !.pages = SortedSeq(Range(@) \cup Range(p.pages)),
                                      !.title = IF @ = None /\ p.is_heading_like
                                                THEN Some(p.text) ELSE @],
                           pars |-> Append(st.pars, p),
                           counter |-> st.counter + 1]

RECURSIVE BuildElements(_, _, _, _)
BuildElements(st, elems, srcPars, srcTabs) ==
    IF elems = <<>> THEN st
    ELSE BuildElements(BuildElement(st, Head(elems), srcPars, srcTabs),
                       Tail(elems), srcPars, srcTabs)

(* faulty variant: paragraph_counter starts again at 1 in every section *)
RECURSIVE BuildSections_CounterPerSection(_, _, _, _, _)
BuildSections_CounterPerSection(acc, k, secs, srcPars, srcTabs) ==
    IF k > Len(secs) THEN acc
    ELSE LET st == BuildElements([sec |-> SectionRecord(SectionId(k), k),
                                  pars |-> acc.pars,
                                  counter |-> 1],
                                 secs[k], srcPars, srcTabs)
         IN  BuildSections_CounterPerSection([secs |-> Append(acc.secs, st.sec),
                                              pars |-> st.pars,
                                              counter |-> st.counter],
                                             k + 1, secs, srcPars, srcTabs)

(* The outer loop of build_raw_records from section index k on.  acc is  *)
(* [secs, pars, counter]: self.section_records, self.paragraph_records   *)
(* and paragraph_counter.                                                *)
RECURSIVE BuildSections(_, _, _, _, _)
BuildSections(acc, k, secs, srcPars, srcTabs) ==
    IF k > Len(secs) THEN acc
    ELSE LET st == BuildElements([sec |-> SectionRecord(SectionId(k), k),
                                  pars |-> acc.pars,
                                  counter |-> acc.counter],
                                 secs[k], srcPars, srcTabs)
         IN  BuildSections([secs |-> Append(acc.secs, st.sec),
                            pars |-> st.pars,
                            counter |-> st.counter],
                           k + 1, secs, srcPars, srcTabs)

build_raw_records(secRecs, parRecs, secs, srcPars, srcTabs) ==
    BuildSections([secs |-> secRecs, pars |-> parRecs, counter |-> 1],
                  1, secs, srcPars, srcTabs)

----------------------------------------------------------------------------
(* para_map = {p.paragraph_id: p for p in self.paragraph_records}: a key   *)
(* maps to the last record that carries it; 0 stands for a missing key.    *)

Lookup(recs, deleted, pid) ==
    LET hits == {i \in 1..Len(recs) : recs[i].paragraph_id = pid}
    IN  IF pid \in deleted \/ hits = {} THEN 0
        ELSE CHOOSE i \in hits : \A j \in hits : j <= i

(* list(para_map.values()): keys in the order of their first insertion,    *)
(* each with the last record that carries it                               *)
ParaMapValues(recs) ==
    LET firsts == {i \in 1..Len(recs) :
                      \A j \in 1..(i - 1) : recs[j].paragraph_id # recs[i].paragraph_id}
        order == SortedSeq(firsts)
    IN  [k \in 1..Len(order) |-> recs[Lookup(recs, {}, recs[order[k]].paragraph_id)]]

----------------------------------------------------------------------------
(* merge_paragraphs_for_embedding_chunks *)

(* faulty variant: the absorbing paragraph's own pages are dropped from the union *)
AbsorbInto_PagesOfNext(paragraph, next_paragraph, merged_text) ==
    [paragraph EXCEPT
        !.text = merged_text,
        !.pages = SortedSeq(Range(next_paragraph.pages)),
        !.layout_refs = @ \o next_paragraph.layout_refs,
        !.merged_from_ids = @ \o next_paragraph.merged_from_ids]

(* faulty variant: the absorbed paragraph is not entered in merged_from_ids *)
AbsorbInto_NoTrail(paragraph, next_paragraph, merged_text) ==
    [paragraph EXCEPT
        !.text = merged_text,
        !.pages = SortedSeq(Range(paragraph.pages) \cup Range(next_paragraph.pages)),
        !.layout_refs = @ \o next_paragraph.layout_refs]

(* one absorption: lines 215-218 *)
AbsorbInto(paragraph, next_paragraph, merged_text) ==
    [paragraph EXCEPT
        !.text = merged_text,
        !.pages = SortedSeq(Range(paragraph.pages) \cup Range(next_paragraph.pages)),
        !.layout_refs = @ \o next_paragraph.layout_refs,
        !.merged_from_ids = @ \o next_paragraph.merged_from_ids]

(* faulty variant: an absorption is never declined for exceeding the maximum *)
RECURSIVE AbsorbLoop_NoMaxCheck(_, _, _, _)
AbsorbLoop_NoMaxCheck(pids, next_idx, k, m) ==
    IF next_idx > Len(pids) THEN [next_idx |-> next_idx, recs |-> m.recs, deleted |-> m.deleted]
    ELSE LET next_paragraph_id == pids[next_idx]
             nk == Lookup(m.recs, m.deleted, next_paragraph_id)
         IN  IF nk = 0 THEN AbsorbLoop_NoMaxCheck(pids, next_idx + 1, k, m)
             ELSE IF ~is_body_text_paragraph(m.recs[nk])
             THEN [next_idx |-> next_idx, recs |-> m.recs, deleted |-> m.deleted]
             ELSE LET merged_text == join_text(m.recs[k].text, m.recs[nk].text)
                      m2 == [recs |-> [m.recs EXCEPT ![k] =
                                          AbsorbInto(m.recs[k], m.recs[nk], merged_text)],
                             deleted |-> m.deleted \cup {next_paragraph_id}]
                  IN  IF is_naturally_sized_chunk(merged_text)
                      THEN [next_idx |-> next_idx + 1,
                            recs |-> m2.recs, deleted |-> m2.deleted]
                      ELSE AbsorbLoop_NoMaxCheck(pids, next_idx + 1, k, m2)

(* faulty variant: the loop ends after the first absorption, whatever the size reached *)
RECURSIVE AbsorbLoop_SingleAbsorption(_, _, _, _)
AbsorbLoop_SingleAbsorption(pids, next_idx, k, m) ==
    IF next_idx > Len(pids) THEN [next_idx |-> next_idx, recs |-> m.recs, deleted |-> m.deleted]
    ELSE LET next_paragraph_id == pids[next_idx]
             nk == Lookup(m.recs, m.deleted, next_paragraph_id)
         IN  IF nk = 0 THEN AbsorbLoop_SingleAbsorption(pids, next_idx + 1, k, m)
             ELSE IF ~is_body_text_paragraph(m.recs[nk])
             THEN [next_idx |-> next_idx, recs |-> m.recs, deleted |-> m.deleted]
             ELSE LET merged_text == join_text(m.recs[k].text, m.recs[nk].text)
                  IN  IF token_count(merged_text) > MAX_EMBEDDING_CHUNK_TOKENS
                      THEN [next_idx |-> next_idx, recs |-> m.recs, deleted |-> m.deleted]
                      ELSE [next_idx |-> next_idx + 1,
                            recs |-> [m.recs EXCEPT ![k] =
                                        AbsorbInto(m.recs[k], m.recs[nk], merged_text)],
                            deleted |-> m.deleted \cup {next_paragraph_id}]

(* the inner while loop (lines 201-224) for the paragraph at recs[k];      *)
(* m is [recs, deleted]; yields [next_idx, recs, deleted]                  *)
RECURSIVE AbsorbLoop(_, _, _, _)
AbsorbLoop(pids, next_idx, k, m) ==
    IF next_idx > Len(pids) THEN [next_idx |-> next_idx, recs |-> m.recs, deleted |-> m.deleted]
    ELSE LET next_paragraph_id == pids[next_idx]
             nk == Lookup(m.recs, m.deleted, next_paragraph_id)
         IN  IF nk = 0 THEN AbsorbLoop(pids, next_idx + 1, k, m)
             ELSE IF ~is_body_text_paragraph(m.recs[nk])
             THEN [next_idx |-> next_idx, recs |-> m.recs, deleted |-> m.deleted]
             ELSE LET merged_text == join_text(m.recs[k].text, m.recs[nk].text)
                  IN  IF token_count(merged_text) > MAX_EMBEDDING_CHUNK_TOKENS
                      THEN [next_idx |-> next_idx, recs |-> m.recs, deleted |-> m.deleted]
                      ELSE LET m2 == [recs |-> [m.recs EXCEPT ![k] =
                                                  AbsorbInto(m.recs[k], m.recs[nk], merged_text)],
                                      deleted |-> m.deleted \cup {next_paragraph_id}]
                           IN  IF is_naturally_sized_chunk(merged_text)
                               THEN [next_idx |-> next_idx + 1,
                                     recs |-> m2.recs, deleted |-> m2.deleted]
                               ELSE AbsorbLoop(pids, next_idx + 1, k, m2)

(* faulty variant: a paragraph that already meets the minimum still absorbs *)
RECURSIVE ChunkScan_NoNaturalSkip(_, _, _, _)
ChunkScan_NoNaturalSkip(pids, i, ids, m) ==
    IF i > Len(pids) THEN [ids |-> ids, recs |-> m.recs, deleted |-> m.deleted]
    ELSE LET paragraph_id == pids[i]
             k == Lookup(m.recs, m.deleted, paragraph_id)
         IN  IF k = 0 THEN ChunkScan_NoNaturalSkip(pids, i + 1, ids, m)
             ELSE IF ~is_body_text_paragraph(m.recs[k])
             THEN ChunkScan_NoNaturalSkip(pids, i + 1, Append(ids, paragraph_id), m)
             ELSE LET r == AbsorbLoop(pids, i + 1, k, m)
                  IN  ChunkScan_NoNaturalSkip(pids, r.next_idx, Append(ids, paragraph_id),
                                              [recs |-> r.recs, deleted |-> r.deleted])

(* the outer while loop (lines 182-227) over one section's paragraph_ids;  *)
(* yields [ids, recs, deleted] with ids = section_paragraph_ids            *)
RECURSIVE ChunkScan(_, _, _, _)
ChunkScan(pids, i, ids, m) ==
    IF i > Len(pids) THEN [ids |-> ids, recs |-> m.recs, deleted |-> m.deleted]
    ELSE LET paragraph_id == pids[i]
             k == Lookup(m.recs, m.deleted, paragraph_id)
         IN  IF k = 0 THEN ChunkScan(pids, i + 1, ids, m)
             ELSE IF ~is_body_text_paragraph(m.recs[k])
             THEN ChunkScan(pids, i + 1, Append(ids, paragraph_id), m)
             ELSE IF is_naturally_sized_chunk(m.recs[k].text)
             THEN ChunkScan(pids, i + 1, Append(ids, paragraph_id), m)
             ELSE LET r == AbsorbLoop(pids, i + 1, k, m)
                  IN  ChunkScan(pids, r.next_idx, Append(ids, paragraph_id),
                                [recs |-> r.recs, deleted |-> r.deleted])

(* the loop over self.section_records (line 179) from section k on *)
RECURSIVE ChunkSections(_, _, _)
ChunkSections(secs, k, m) ==
    IF k > Len(secs) THEN [secs |-> secs, recs |-> m.recs, deleted |-> m.deleted]
    ELSE LET r == ChunkScan(secs[k].paragraph_ids, 1, <<>>, m)
         IN  ChunkSections([secs EXCEPT ![k].paragraph_ids = r.ids], k + 1,
                           [recs |-> r.recs, deleted |-> r.deleted])

(* faulty variant: the absorbed records are not filtered out of paragraph_records *)
merge_paragraphs_for_embedding_chunks_KeepAbsorbed(secRecs, parRecs) ==
    LET r == ChunkSections(secRecs, 1, [recs |-> parRecs, deleted |-> {}])
    IN  [secs |-> r.secs, pars |-> r.recs]

merge_paragraphs_for_embedding_chunks(secRecs, parRecs) ==
    LET r == ChunkSections(secRecs, 1, [recs |-> parRecs, deleted |-> {}])
        kept == {i \in 1..Len(r.recs) : r.recs[i].paragraph_id \notin r.deleted}
        order == SortedSeq(kept)
    IN  [secs |-> r.secs,
         pars |-> [j \in 1..Len(order) |-> r.recs[order[j]]]]

----------------------------------------------------------------------------
(* merge_sparse_sections: one iteration of the while loop (lines 239-286)  *)

RemoveAt(s, i) == SubSeq(s, 1, i - 1) \o SubSeq(s, i + 1, Len(s))

IsTruthy(opt) == opt # None /\ opt[1] # <<>>

BodyCount(section, recs) ==
    Cardinality({k \in 1..Len(section.paragraph_ids) :
        LET j == Lookup(recs, {}, section.paragraph_ids[k])
        IN  j # 0 /\ is_body_text_paragraph(recs[j])})

RECURSIVE HeadingTexts(_, _)
HeadingTexts(pids, recs) ==
    IF pids = <<>> THEN <<>>
    ELSE LET j == Lookup(recs, {}, Head(pids))
         IN  (IF j # 0 /\ recs[j].is_heading_like /\ recs[j].text # <<>>
              THEN <<recs[j].text>> ELSE <<>>) \o HeadingTexts(Tail(pids), recs)

(* faulty variant: the previous section is preferred to the next one *)
TargetIdx_PreferPrevious(i, n) == IF i - 1 >= 1 THEN i - 1 ELSE i + 1

TargetIdx(i, n) == IF i + 1 <= n THEN i + 1 ELSE i - 1

(* faulty variant: the trail records the target's id instead of the removed section's *)
ConsolidateInto_TrailOfTarget(secs, recs, i) ==
    LET section == secs[i]
        target_idx == TargetIdx(i, Len(secs))
        target == secs[target_idx]
        heading_texts == HeadingTexts(section.paragraph_ids, recs)
                         \o (IF IsTruthy(section.title) THEN <<section.title[1]>> ELSE <<>>)
        target2 == [target EXCEPT
                      !.merged_from_section_ids = Append(@, target.section_id),
                      !.inherited_headings = @ \o heading_texts,
                      !.title = IF @ = None /\ IsTruthy(section.title) THEN section.title ELSE @,
                      !.paragraph_ids = IF target_idx > i THEN section.paragraph_ids \o @
                                        ELSE @ \o section.paragraph_ids,
                      !.pages = SortedSeq(Range(@) \cup Range(section.pages))]
        moved == {Lookup(recs, {}, section.paragraph_ids[k]) :
                      k \in 1..Len(section.paragraph_ids)} \ {0}
    IN  [secs |-> RemoveAt([secs EXCEPT ![target_idx] = target2], i),
         recs |-> [j \in 1..Len(recs) |->
                     IF j \in moved THEN [recs[j] EXCEPT !.section_id = target.section_id]
                     ELSE recs[j]],
         idx |-> IF target_idx < i THEN i - 1 ELSE i]

(* faulty variant: the scan always moves on after a forward merge *)
ConsolidateInto_AlwaysAdvance(secs, recs, i) ==
    LET section == secs[i]
        target_idx == TargetIdx(i, Len(secs))
        target == secs[target_idx]
        heading_texts == HeadingTexts(section.paragraph_ids, recs)
                         \o (IF IsTruthy(section.title) THEN <<section.title[1]>> ELSE <<>>)
        target2 == [target EXCEPT
                      !.merged_from_section_ids = Append(@, section.section_id),
                      !.inherited_headings = @ \o heading_texts,
                      !.title = IF @ = None /\ IsTruthy(section.title) THEN section.title ELSE @,
                      !.paragraph_ids = IF target_idx > i THEN section.paragraph_ids \o @
                                        ELSE @ \o section.paragraph_ids,
                      !.pages = SortedSeq(Range(@) \cup Range(section.pages))]
        moved == {Lookup(recs, {}, section.paragraph_ids[k]) :
                      k \in 1..Len(section.paragraph_ids)} \ {0}
    IN  [secs |-> RemoveAt([secs EXCEPT ![target_idx] = target2], i),
         recs |-> [j \in 1..Len(recs) |->
                     IF j \in moved THEN [recs[j] EXCEPT !.section_id = target.section_id]
                     ELSE recs[j]],
         idx |-> IF target_idx < i THEN i - 1 ELSE i + 1]

(* faulty variant: the pages of the removed section are not added to the target *)
ConsolidateInto_PagesOfTarget(secs, recs, i) ==
    LET section == secs[i]
        target_idx == TargetIdx(i, Len(secs))
        target == secs[target_idx]
        heading_texts == HeadingTexts(section.paragraph_ids, recs)
                         \o (IF IsTruthy(section.title) THEN <<section.title[1]>> ELSE <<>>)
        target2 == [target EXCEPT
                      !.merged_from_section_ids = Append(@, section.section_id),
                      !.inherited_headings = @ \o heading_texts,
                      !.title = IF @ = None /\ IsTruthy(section.title) THEN section.title ELSE @,
                      !.paragraph_ids = IF target_idx > i THEN section.paragraph_ids \o @
                                        ELSE @ \o section.paragraph_ids]
        moved == {Lookup(recs, {}, section.paragraph_ids[k]) :
                      k \in 1..Len(section.paragraph_ids)} \ {0}
    IN  [secs |-> RemoveAt([secs EXCEPT ![target_idx] = target2], i),
         recs |-> [j \in 1..Len(recs) |->
                     IF j \in moved THEN [recs[j] EXCEPT !.section_id = target.section_id]
                     ELSE recs[j]],
         idx |-> IF target_idx < i THEN i - 1 ELSE i]

(* faulty variant: the moved paragraphs are always appended, also to a following section *)
ConsolidateInto_AlwaysAppend(secs, recs, i) ==
    LET section == secs[i]
        target_idx == TargetIdx(i, Len(secs))
        target == secs[target_idx]
        heading_texts == HeadingTexts(section.paragraph_ids, recs)
                         \o (IF IsTruthy(section.title) THEN <<section.title[1]>> ELSE <<>>)
        target2 == [target EXCEPT
                      !.merged_from_section_ids = Append(@, section.section_id),
                      !.inherited_headings = @ \o heading_texts,
                      !.title = IF @ = None /\ IsTruthy(section.title) THEN section.title ELSE @,
                      !.paragraph_ids = @ \o section.paragraph_ids,
                      !.pages = SortedSeq(Range(@) \cup Range(section.pages))]
        moved == {Lookup(recs, {}, section.paragraph_ids[k]) :
                      k \in 1..Len(section.paragraph_ids)} \ {0}
    IN  [secs |-> RemoveAt([secs EXCEPT ![target_idx] = target2], i),
         recs |-> [j \in 1..Len(recs) |->
                     IF j \in moved THEN [recs[j] EXCEPT !.section_id = target.section_id]
                     ELSE recs[j]],
         idx |-> IF target_idx < i THEN i - 1 ELSE i]

(* lines 257-286: fold secs[i] into its target and remove it *)
ConsolidateInto(secs, recs, i) ==
    LET section == secs[i]
        target_idx == TargetIdx(i, Len(secs))
        target == secs[target_idx]
        heading_texts == HeadingTexts(section.paragraph_ids, recs)
                         \o (IF IsTruthy(section.title) THEN <<section.title[1]>> ELSE <<>>)
        target2 == [target EXCEPT
                      !.merged_from_section_ids = Append(@, section.section_id),
                      !.inherited_headings = @ \o heading_texts,
                      !.title = IF @ = None /\ IsTruthy(section.title) THEN section.title ELSE @,
                      !.paragraph_ids = IF target_idx > i THEN section.paragraph_ids \o @
                                        ELSE @ \o section.paragraph_ids,
                      !.pages = SortedSeq(Range(@) \cup Range(section.pages))]
        moved == {Lookup(recs, {}, section.paragraph_ids[k]) :
                      k \in 1..Len(section.paragraph_ids)} \ {0}
    IN  [secs |-> RemoveAt([secs EXCEPT ![target_idx] = target2], i),
         recs |-> [j \in 1..Len(recs) |->
                     IF j \in moved THEN [recs[j] EXCEPT !.section_id = target.section_id]
                     ELSE recs[j]],
         idx |-> IF target_idx < i THEN i - 1 ELSE i]

(* faulty variant: no guard for the last remaining section, which is then popped *)
SparseStep_NoSingleGuard(secs, recs, i) ==
    LET body == BodyCount(secs[i], recs)
        flagged == [secs EXCEPT ![i].is_heading_only_original = (body = 0)]
    IN  IF body > 1 THEN [secs |-> secs, recs |-> recs, idx |-> i + 1]
        ELSE IF Len(secs) = 1 THEN [secs |-> <<>>, recs |-> recs, idx |-> i]
        ELSE ConsolidateInto(flagged, recs, i)

(* faulty variant: the scan does not move on from the last remaining section *)
SparseStep_SingleNoAdvance(secs, recs, i) ==
    LET body == BodyCount(secs[i], recs)
        flagged == [secs EXCEPT ![i].is_heading_only_original = (body = 0)]
    IN  IF body > 1 THEN [secs |-> secs, recs |-> recs, idx |-> i + 1]
        ELSE IF Len(secs) = 1 THEN [secs |-> flagged, recs |-> recs, idx |-> i]
        ELSE ConsolidateInto(flagged, recs, i)

(* faulty variant: every sparse section is flagged, also one with a body paragraph *)
SparseStep_FlagWhenSparse(secs, recs, i) ==
    LET body == BodyCount(secs[i], recs)
        flagged == [secs EXCEPT ![i].is_heading_only_original = TRUE]
    IN  IF body > 1 THEN [secs |-> secs, recs |-> recs, idx |-> i + 1]
        ELSE IF Len(secs) = 1 THEN [secs |-> flagged, recs |-> recs, idx |-> i + 1]
        ELSE ConsolidateInto(flagged, recs, i)

SparseStep(secs, recs, i) ==
    LET body == BodyCount(secs[i], recs)
        flagged == [secs EXCEPT ![i].is_heading_only_original = (body = 0)]
    IN  IF body > 1 THEN [secs |-> secs, recs |-> recs, idx |-> i + 1]
        ELSE IF Len(secs) = 1 THEN [secs |-> flagged, recs |-> recs, idx |-> i + 1]
        ELSE ConsolidateInto(flagged, recs, i)

----------------------------------------------------------------------------
(* finalize_ordering *)

(* the inner loop (lines 298-305) over section.paragraph_ids from position *)
(* k on; f is [recs, clean_ids, ordered]; ordered lists the records        *)
(* appended to ordered_paragraphs, as positions in recs                    *)
RECURSIVE FinalizeParagraphs(_, _, _)
FinalizeParagraphs(section, k, f) ==
    IF k > Len(section.paragraph_ids) THEN f
    ELSE LET paragraph_id == section.paragraph_ids[k]
             j == Lookup(f.recs, {}, paragraph_id)
         IN  IF j = 0 THEN FinalizeParagraphs(section, k + 1, f)
             ELSE FinalizeParagraphs(section, k + 1,
                      [recs |-> [f.recs EXCEPT ![j].order_in_section = k,
                                               ![j].section_id = section.section_id],
                       clean_ids |-> Append(f.clean_ids, paragraph_id),
                       ordered |-> Append(f.ordered, j)])

RECURSIVE FirstHeadingText(_, _)
FirstHeadingText(pids, recs) ==
    IF pids = <<>> THEN None
    ELSE LET j == Lookup(recs, {}, Head(pids))
         IN  IF recs[j].is_heading_like /\ recs[j].text # <<>> THEN Some(recs[j].text)
             ELSE FirstHeadingText(Tail(pids), recs)

(* faulty variant: section_order is left as build_raw_records set it *)
FinalizeSection_StaleOrder(section, section_order, recs, clean_ids) ==
    [section EXCEPT
        !.paragraph_ids = clean_ids,
        !.pages = SortedSeq(UNION {Range(recs[Lookup(recs, {}, clean_ids[k])].pages) :
                                      k \in 1..Len(clean_ids)}),
        !.title = IF @ = None THEN FirstHeadingText(clean_ids, recs) ELSE @]

(* faulty variant: pages are listed paragraph by paragraph, neither sorted nor deduplicated *)
FinalizeSection_PagesInParagraphOrder(section, section_order, recs, clean_ids) ==
    [section EXCEPT
        !.section_order = section_order,
        !.paragraph_ids = clean_ids,
        !.pages = Flatten([k \in 1..Len(clean_ids) |->
                              recs[Lookup(recs, {}, clean_ids[k])].pages]),
        !.title = IF @ = None THEN FirstHeadingText(clean_ids, recs) ELSE @]

FinalizeSection(section, section_order, recs, clean_ids) ==
    [section EXCEPT
        !.section_order = section_order,
        !.paragraph_ids = clean_ids,
        !.pages = SortedSeq(UNION {Range(recs[Lookup(recs, {}, clean_ids[k])].pages) :
                                      k \in 1..Len(clean_ids)}),
        !.title = IF @ = None THEN FirstHeadingText(clean_ids, recs) ELSE @]

RECURSIVE FinalizeSections(_, _, _, _)
FinalizeSections(secs, k, recs, ordered) ==
    IF k > Len(secs) THEN [secs |-> secs, recs |-> recs, ordered |-> ordered]
    ELSE LET f == FinalizeParagraphs(secs[k], 1,
                      [recs |-> recs, clean_ids |-> <<>>, ordered |-> ordered])
         IN  FinalizeSections(
                 [secs EXCEPT ![k] = FinalizeSection(secs[k], k, f.recs, f.clean_ids)],
                 k + 1, f.recs, f.ordered)

finalize_ordering(secRecs, parRecs) ==
    LET r == FinalizeSections(secRecs, 1, parRecs, <<>>)
    IN  [secs |-> r.secs,
         pars |-> [k \in 1..Len(r.ordered) |-> r.recs[r.ordered[k]]]]

----------------------------------------------------------------------------
(* The per-section text for summarisation: build_section_text_for_summary  *)
(* and its copy in pipeline_service.build_section_text_map                 *)

INHERITED_HEADINGS_LABEL == <<[w |-> "Inherited headings:", n |-> 1]>>

(* the loop over section.paragraph_ids (lines 332-339) *)
RECURSIVE BodyTexts(_, _)
BodyTexts(pids, recs) ==
    IF pids = <<>> THEN <<>>
    ELSE LET j == Lookup(recs, {}, Head(pids))
             skip == \/ j = 0
                     \/ recs[j].is_heading_like /\ recs[j].kind = PARAGRAPH_KIND_TEXT
                     \/ recs[j].text = <<>>
         IN  (IF skip THEN <<>> ELSE <<recs[j].text>>) \o BodyTexts(Tail(pids), recs)

build_section_text_for_summary(section, recs) ==
    LET body_text == BodyTexts(section.paragraph_ids, recs)
        chunks == (IF section.inherited_headings # <<>>
                   THEN <<INHERITED_HEADINGS_LABEL \o <<NL>>
                              \o JoinWith(<<NL>>, section.inherited_headings)>>
                   ELSE <<>>)
                  \o (IF body_text # <<>> THEN <<JoinWith(<<NL, NL>>, body_text)>> ELSE <<>>)
    IN  Strip(JoinWith(<<NL, NL>>, chunks))

build_section_text_map(secs, pars) ==
    [s \in 1..Len(secs) |-> build_section_text_for_summary(secs[s], pars)]

----------------------------------------------------------------------------
(* The explored layouts *)

SrcParagraph(content, role, bounding_regions) ==
    [content |-> content, role |-> role, bounding_regions |-> bounding_regions]

SourceParagraphs ==
    << SrcParagraph(<<SP>> \o Words("a", 20) \o <<NL>>, None, <<1>>),
       SrcParagraph(Words("b", 30), None, <<2, 1, 2>>),
       SrcParagraph(Words("c", 40), None, <<>>),
       SrcParagraph(Words("d", 80), None, <<2, NoPage>>),
       SrcParagraph(Words("Notes", 1), Some("title"), <<3>>),
       SrcParagraph(<<SP>>, None, <<1>>),
       SrcParagraph(Words("e", 300), None, <<4>>),
       SrcParagraph(Words("SUMMARY", 1), None, <<2>>),
       SrcParagraph(Words("HEADER", 1), Some("pageHeader"), <<1>>),
       SrcParagraph(<<NL>>, Some("heading"), <<2>>) >>

Cell(row_index, column_index, content) ==
    [row_index |-> row_index, column_index |-> column_index, content |-> content]

SourceTables ==
    << [cells |-> << Cell(0, 1, Words("B", 1)), Cell(0, 0, Words("A", 1)),
                     Cell(1, NoIndex, Words("C", 1) \o <<SP>>) >>,
        bounding_regions |-> <<3>>] >>

RefsGeneral ==
    { ElementRef(PARAGRAPHS, 0), ElementRef(PARAGRAPHS, 3), ElementRef(PARAGRAPHS, 4),
      ElementRef(TABLES, 0) }

RefsChunk ==
    { ElementRef(PARAGRAPHS, 0), ElementRef(PARAGRAPHS, 1), ElementRef(PARAGRAPHS, 2),
      ElementRef(PARAGRAPHS, 4), ElementRef(PARAGRAPHS, 5), ElementRef(PARAGRAPHS, 6) }

RefsBuild ==
    { ElementRef(PARAGRAPHS, 4), ElementRef(TABLES, 0),
      <<"/">> \o PARAGRAPHS \o <<"/", "a", "b", "c">>,
      ElementRef(<<"f", "i", "g", "u", "r", "e", "s">>, 0),
      ElementRef(PARAGRAPHS, 10), ElementRef(TABLES, 1),
      <<"#", "/", "s", "e", "c", "t", "i", "o", "n", "s", "/", "1">> \o ElementRef(PARAGRAPHS, 7) }

RECURSIVE LayoutsOf(_, _, _)
LayoutsOf(s, budget, refs) ==
    IF s = 0 THEN {<<>>}
    ELSE UNION { { <<sec>> \o rest : sec \in [1..n -> refs],
                                    rest \in LayoutsOf(s - 1, budget - n, refs) } :
                 n \in 0..budget }

Layouts(refs, maxSections) ==
    UNION { LayoutsOf(s, MaxElems, refs) : s \in 0..maxSections }

(* Larger layouts: every sequence of at most MaxSections of these sections *)
SectionShapes ==
    LET a == ElementRef(PARAGRAPHS, 0)
        d == ElementRef(PARAGRAPHS, 3)
        h == ElementRef(PARAGRAPHS, 4)
        t == ElementRef(TABLES, 0)
        b == ElementRef(PARAGRAPHS, 9)
    IN  { <<d, d>>, <<h, d, d>>, <<h>>, <<a>>, <<d, t, d>>, <<a, d, d>>, <<b, d>> }

ShapedLayouts == UNION { [1..s -> SectionShapes] : s \in 0..MaxSections }

NoOutput == [secs |-> <<>>, pars |-> <<>>]

InitWith(layouts) ==
    /\ sections \in layouts
    /\ paragraphs = SourceParagraphs
    /\ tables = SourceTables
    /\ section_records = <<>>
    /\ paragraph_records = <<>>
    /\ idx = 0
    /\ pc = "start"
    /\ run = 1
    /\ first_out = NoOutput
    /\ section_text_map = <<>>
    /\ paragraph_counter = 1

Init == InitWith(Layouts(RefsGeneral, MaxStageSections) \cup ShapedLayouts)
InitChunk == InitWith(Layouts(RefsChunk, MaxStageSections))
InitRepeat == Init

(* Layouts for the loop of merge_sparse_sections: every sequence of at    *)
(* most MaxSparseSections sections that hold a heading, one short body     *)
(* paragraph or two body paragraphs                                        *)
SparseShapes ==
    { <<ElementRef(PARAGRAPHS, 4)>>, <<ElementRef(PARAGRAPHS, 0)>>,
      <<ElementRef(PARAGRAPHS, 3), ElementRef(PARAGRAPHS, 3)>> }

InitSparse == InitWith(UNION { [1..s -> SparseShapes] : s \in 0..MaxSparseSections })
InitBuild == InitWith(Layouts(RefsBuild, MaxStageSections))

(* Layouts of one section that refers to one table: every table of at most *)
(* MaxCells cells in rows 0..1 and columns None, 0, 1, each cell filled    *)
(* with the letter of its place or left blank                              *)
CellLetter(row_index, column_index) ==
    IF column_index = NoIndex THEN "E"
    ELSE IF row_index = 0 THEN (IF column_index = 0 THEN "A" ELSE "B")
    ELSE (IF column_index = 0 THEN "C" ELSE "D")

CellKinds ==
    { Cell(r, c, IF filled THEN Words(CellLetter(r, c), 1)
                 ELSE IF r = 0 THEN <<>> ELSE <<SP>>) :
        r \in {0, 1}, c \in {NoIndex, 0, 1}, filled \in BOOLEAN }

GeneratedTables ==
    { [cells |-> cells, bounding_regions |-> <<1>>] :
        cells \in UNION { [1..n -> CellKinds] : n \in 0..MaxCells } }

InitTable ==
    /\ sections = << <<ElementRef(TABLES, 0)>> >>
    /\ paragraphs = <<>>
    /\ tables \in { <<t>> : t \in GeneratedTables }
    /\ section_records = <<>>
    /\ paragraph_records = <<>>
    /\ idx = 0
    /\ pc = "start"
    /\ run = 1
    /\ first_out = NoOutput
    /\ section_text_map = <<>>
    /\ paragraph_counter = 1

(* build_raw_records taken up in the middle of a larger document: the     *)
(* sections are those still to come and paragraph_counter is what the      *)
(* paragraphs built before them have made it (10^d - 1 for d digits)       *)
RefsCounter ==
    { ElementRef(PARAGRAPHS, 3), ElementRef(TABLES, 0), ElementRef(PARAGRAPHS, 10) }

CounterStarts == {1} \cup {10 ^ d - 1 : d \in 1..MaxCounterDigits}

InitCounter ==
    /\ sections \in Layouts(RefsCounter, MaxStageSections)
    /\ paragraphs = SourceParagraphs
    /\ tables = SourceTables
    /\ section_records = <<>>
    /\ paragraph_records = <<>>
    /\ idx = 0
    /\ pc = "start"
    /\ run = 1
    /\ first_out = NoOutput
    /\ section_text_map = <<>>
    /\ paragraph_counter \in CounterStarts

(* Layouts of one section that refers to each of at most MaxRoleSources    *)
(* source paragraphs, in order, and then to the table: every combination   *)
(* of these contents and roles                                             *)
RoleContents ==
    { <<>>,
      <<SP>> \o Words("A", 12) \o <<NL>>,
      Words("A", 13),
      Words("A", 6) \o <<NL>> \o Words("B", 6),
      Words("a", 2),
      Words("Notes", 1) }

RoleValues == { None, Some(""), Some("title"), Some("heading"), Some("sectionHeading") }

RoleSources ==
    UNION { [1..n -> { SrcParagraph(c, r, <<1>>) : c \in RoleContents, r \in RoleValues }] :
              n \in 1..MaxRoleSources }

InitRole ==
    /\ paragraphs \in RoleSources
    /\ sections = << [k \in 1..Len(paragraphs) |-> ElementRef(PARAGRAPHS, k - 1)]
                      \o <<ElementRef(TABLES, 0)>> >>
    /\ tables = SourceTables
    /\ section_records = <<>>
    /\ paragraph_records = <<>>
    /\ idx = 0
    /\ pc = "start"
    /\ run = 1
    /\ first_out = NoOutput
    /\ section_text_map = <<>>
    /\ paragraph_counter = 1

(* Record states handed to finalize_ordering with dangling ids: the        *)
(* records build_raw_records makes of a layout, less any set of paragraph  *)
(* records (their ids stay in the sections' paragraph_ids)                 *)
RefsFinalize ==
    { ElementRef(PARAGRAPHS, 0), ElementRef(PARAGRAPHS, 3), ElementRef(PARAGRAPHS, 4) }

RemoveRecords(pars, dropped) ==
    LET order == SortedSeq((1..Len(pars)) \ dropped)
    IN  [j \in 1..Len(order) |-> pars[order[j]]]

InitFinalize ==
    /\ sections \in Layouts(RefsFinalize, MaxStageSections)
    /\ paragraphs = SourceParagraphs
    /\ tables = SourceTables
    /\ LET raw == build_raw_records(<<>>, <<>>, sections, paragraphs, tables)
       IN  /\ section_records = raw.secs
           /\ \E dropped \in SUBSET (1..Len(raw.pars)) :
                  paragraph_records = RemoveRecords(raw.pars, dropped)
    /\ idx = 0
    /\ pc = "consolidated"
    /\ run = 1
    /\ first_out = NoOutput
    /\ section_text_map = <<>>
    /\ paragraph_counter = 1

----------------------------------------------------------------------------
(* process(): lines 44-49, one action per stage; merge_sparse_sections one *)
(* action per loop iteration                                               *)

BuildRawRecords ==
    /\ pc = "start"
    /\ LET r == build_raw_records(section_records, paragraph_records,
                                  sections, paragraphs, tables)
       IN  /\ section_records' = r.secs
           /\ paragraph_records' = r.pars
    /\ pc' = "built"
    /\ UNCHANGED <<sections, paragraphs, tables, idx, run, first_out, section_text_map, paragraph_counter>>

MergeParagraphs ==
    /\ pc = "built"
    /\ LET r == merge_paragraphs_for_embedding_chunks(section_records, paragraph_records)
       IN  /\ section_records' = r.secs
           /\ paragraph_records' = r.pars
    /\ pc' = "chunked"
    /\ UNCHANGED <<sections, paragraphs, tables, idx, run, first_out, section_text_map, paragraph_counter>>

MergeSparseBegin ==
    /\ pc = "chunked"
    /\ \/ /\ section_records = <<>>
          /\ pc' = "consolidated"
          /\ idx' = idx
       \/ /\ section_records # <<>>
          /\ pc' = "sparse"
          /\ idx' = 1
    /\ UNCHANGED <<sections, paragraphs, tables, section_records, paragraph_records,
                   run, first_out, section_text_map, paragraph_counter>>

MergeSparseStep ==
    /\ pc = "sparse"
    /\ idx <= Len(section_records)
    /\ LET r == SparseStep(section_records, paragraph_records, idx)
       IN  /\ section_records' = r.secs
           /\ paragraph_records' = r.recs
           /\ idx' = r.idx
    /\ UNCHANGED <<sections, paragraphs, tables, pc, run, first_out, section_text_map, paragraph_counter>>

MergeSparseEnd ==
    /\ pc = "sparse"
    /\ idx > Len(section_records)
    /\ paragraph_records' = ParaMapValues(paragraph_records)
    /\ pc' = "consolidated"
    /\ UNCHANGED <<sections, paragraphs, tables, section_records, idx, run, first_out,
                   section_text_map, paragraph_counter>>

FinalizeOrdering ==
    /\ pc = "consolidated"
    /\ LET r == finalize_ordering(section_records, paragraph_records)
       IN  /\ section_records' = r.secs
           /\ paragraph_records' = r.pars
           /\ first_out' = IF run = 1 THEN r ELSE first_out
    /\ pc' = "done"
    /\ UNCHANGED <<sections, paragraphs, tables, idx, run, section_text_map,
                   paragraph_counter>>

(* merge_paragraphs_for_embedding_chunks called once more, on its own result *)
MergeParagraphsAgain ==
    /\ pc = "chunked"
    /\ LET r == merge_paragraphs_for_embedding_chunks(section_records, paragraph_records)
       IN  /\ section_records' = r.secs
           /\ paragraph_records' = r.pars
    /\ pc' = "rechunked"
    /\ UNCHANGED <<sections, paragraphs, tables, idx, run, first_out, section_text_map, paragraph_counter>>

(* pipeline_service: build_section_text_map on what process() returned *)
BuildSectionTextMap ==
    /\ pc = "done"
    /\ section_text_map' = build_section_text_map(section_records, paragraph_records)
    /\ pc' = "summarised"
    /\ UNCHANGED <<sections, paragraphs, tables, section_records, paragraph_records,
                   idx, run, first_out, paragraph_counter>>

----------------------------------------------------------------------------
(* The returned records handed back as an already segmented layout: one    *)
(* source paragraph or one single-cell table per returned paragraph, with  *)
(* its text, kind and heading status, and one section per returned section *)

KindIndex(pars, k) ==
    Cardinality({j \in 1..(k - 1) : pars[j].kind = pars[k].kind})

RefOfRecord(pars, k) ==
    ElementRef(IF pars[k].kind = PARAGRAPH_KIND_TEXT THEN PARAGRAPHS ELSE TABLES,
               KindIndex(pars, k))

SourceOfRecord(p) ==
    IF p.kind = PARAGRAPH_KIND_TEXT
    THEN SrcParagraph(p.text,
                      IF HeadingLike(p.role, p.text) = p.is_heading_like THEN p.role
                      ELSE IF p.is_heading_like THEN Some("title") ELSE Some("paragraph"),
                      p.pages)
    ELSE [cells |-> <<Cell(0, 0, p.text)>>, bounding_regions |-> p.pages]

SourcesOfKind(pars, kind) ==
    LET order == SortedSeq({k \in 1..Len(pars) : pars[k].kind = kind})
    IN  [j \in 1..Len(order) |-> SourceOfRecord(pars[order[j]])]

LayoutOfOutput(secs, pars) ==
    [sections |-> [s \in 1..Len(secs) |->
                     [j \in 1..Len(secs[s].paragraph_ids) |->
                        RefOfRecord(pars, Lookup(pars, {}, secs[s].paragraph_ids[j]))]],
     paragraphs |-> SourcesOfKind(pars, PARAGRAPH_KIND_TEXT),
     tables |-> SourcesOfKind(pars, PARAGRAPH_KIND_TABLE_TEXT)]

Refeed ==
    /\ pc = "done"
    /\ run = 1
    /\ LET layout == LayoutOfOutput(section_records, paragraph_records)
       IN  /\ sections' = layout.sections
           /\ paragraphs' = layout.paragraphs
           /\ tables' = layout.tables
    /\ section_records' = <<>>
    /\ paragraph_records' = <<>>
    /\ idx' = 0
    /\ pc' = "start"
    /\ run' = 2
    /\ UNCHANGED <<first_out, section_text_map, paragraph_counter>>

(* process() called once more on the same LayoutProcessor: the instance   *)
(* keeps self.section_records and self.paragraph_records                   *)
ProcessAgain ==
    /\ pc = "done"
    /\ run = 1
    /\ pc' = "start"
    /\ run' = 3
    /\ UNCHANGED <<sections, paragraphs, tables, section_records, paragraph_records,
                   idx, first_out, section_text_map, paragraph_counter>>

Next ==
    \/ BuildRawRecords
    \/ MergeParagraphs
    \/ MergeSparseBegin
    \/ MergeSparseStep
    \/ MergeSparseEnd
    \/ FinalizeOrdering
    \/ BuildSectionTextMap
    \/ Refeed

(* the loops of build_raw_records (lines 54-103) from paragraph_counter on *)
BuildFromCounter ==
    /\ pc = "start"
    /\ LET r == BuildSections([secs |-> section_records, pars |-> paragraph_records,
                               counter |-> paragraph_counter],
                              1, sections, paragraphs, tables)
       IN  /\ section_records' = r.secs
           /\ paragraph_records' = r.pars
           /\ paragraph_counter' = r.counter
    /\ pc' = "built"
    /\ UNCHANGED <<sections, paragraphs, tables, idx, run, first_out, section_text_map>>

NextChunk == BuildRawRecords \/ MergeParagraphs

NextRechunk == BuildRawRecords \/ MergeParagraphs \/ MergeParagraphsAgain

NextCounter == BuildFromCounter

NextFinalize == FinalizeOrdering

NextSparse ==
    \/ BuildRawRecords
    \/ MergeParagraphs
    \/ MergeSparseBegin
    \/ MergeSparseStep
    \/ MergeSparseEnd

NextRepeat ==
    \/ BuildRawRecords
    \/ MergeParagraphs
    \/ MergeSparseBegin
    \/ MergeSparseStep
    \/ MergeSparseEnd
    \/ FinalizeOrdering
    \/ ProcessAgain

NextBuild == BuildRawRecords

Spec == Init /\ [][Next]_vars
SpecChunk == InitChunk /\ [][NextChunk]_vars
SpecRechunk == InitChunk /\ [][NextRechunk]_vars
SpecBuild == InitBuild /\ [][NextBuild]_vars
SpecTable == InitTable /\ [][NextBuild]_vars
SpecCounter == InitCounter /\ [][NextCounter]_vars
SpecRole == InitRole /\ [][NextBuild]_vars
SpecRepeat == InitRepeat /\ [][NextRepeat]_vars
SpecFinalize == InitFinalize /\ [][NextFinalize]_vars

(* merge_sparse_sections is sequential code: an iteration of its loop that *)
(* can run does run, and so does the statement after the loop              *)
SpecSparse ==
    /\ InitSparse
    /\ [][NextSparse]_vars
    /\ WF_vars(MergeSparseStep)
    /\ WF_vars(MergeSparseEnd)

----------------------------------------------------------------------------
(* Views of the state used by the properties *)

(* what build_raw_records makes of the current layout *)
Raw == build_raw_records(<<>>, <<>>, sections, paragraphs, tables)

ParIds(pars) == [k \in 1..Len(pars) |-> pars[k].paragraph_id]
SecIds(secs) == [k \in 1..Len(secs) |-> secs[k].section_id]

RECURSIVE IdsOfSection(_, _)
IdsOfSection(pars, section_id) ==
    IF pars = <<>> THEN <<>>
    ELSE (IF Head(pars).section_id = section_id THEN <<Head(pars).paragraph_id>> ELSE <<>>)
         \o IdsOfSection(Tail(pars), section_id)

SomeChunkMerge(pars) == \E k \in 1..Len(pars) : Len(pars[k].merged_from_ids) > 1
SomeConsolidation(secs) == \E s \in 1..Len(secs) : secs[s].merged_from_section_ids # <<>>

----------------------------------------------------------------------------
(* C1: after process() the section_order values are exactly 1..N, each     *)
(* once, and within every returned section the order_in_section values of  *)
(* its paragraphs are exactly 1..M, each once.                             *)
C1_ContiguousOrdering ==
    pc = "done" =>
        /\ \A n \in 1..Len(section_records) :
              Cardinality({s \in 1..Len(section_records) :
                              section_records[s].section_order = n}) = 1
        /\ \A s \in 1..Len(section_records) :
              LET mine == {k \in 1..Len(paragraph_records) :
                              paragraph_records[k].section_id = section_records[s].section_id}
              IN  \A m \in 1..Cardinality(mine) :
                      Cardinality({k \in mine : paragraph_records[k].order_in_section = m}) = 1

C1_Witness ==
    /\ pc = "done"
    /\ run = 1
    /\ Len(section_records) >= 2
    /\ SomeConsolidation(section_records)
    /\ SomeChunkMerge(paragraph_records)

C3_PagesUnion ==
    pc = "done" =>
        \A s \in 1..Len(section_records) :
            LET mine == {k \in 1..Len(paragraph_records) :
                            paragraph_records[k].paragraph_id
                                \in Range(section_records[s].paragraph_ids)}
                union == UNION {Range(paragraph_records[k].pages) : k \in mine}
            IN  /\ Range(section_records[s].pages) = union
                /\ Len(section_records[s].pages) = Cardinality(union)
                /\ \A i \in 1..(Len(section_records[s].pages) - 1) :
                      section_records[s].pages[i] < section_records[s].pages[i + 1]

C3_Witness ==
    /\ pc = "done"
    /\ \E s \in 1..Len(section_records) :
          /\ Len(section_records[s].pages) >= 3
          /\ section_records[s].merged_from_section_ids # <<>>
          /\ Len(section_records[s].paragraph_ids) >= 4

(* C4: after process() every returned section's paragraph_ids is the       *)
(* sequence of ids of the returned paragraphs whose section_id is that     *)
(* section, in the order of the returned list; no paragraph id occurs      *)
(* twice in or across sections; every returned paragraph belongs to        *)
(* exactly one returned section.                                           *)
C4_Membership ==
    pc = "done" =>
        /\ \A s \in 1..Len(section_records) :
              section_records[s].paragraph_ids
                  = IdsOfSection(paragraph_records, section_records[s].section_id)
        /\ LET used == UNION {{<<s, j>> : j \in 1..Len(section_records[s].paragraph_ids)} :
                                 s \in 1..Len(section_records)}
           IN  \A x, y \in used :
                  x # y => section_records[x[1]].paragraph_ids[x[2]]
                             # section_records[y[1]].paragraph_ids[y[2]]
        /\ \A k \in 1..Len(paragraph_records) :
              Cardinality({s \in 1..Len(section_records) :
                  section_records[s].section_id = paragraph_records[k].section_id}) = 1

C4_Witness ==
    /\ pc = "done"
    /\ Len(section_records) >= 2
    /\ \E s \in 1..Len(section_records) :
          /\ section_records[s].merged_from_section_ids # <<>>
          /\ Len(section_records[s].paragraph_ids) >= 3
          /\ section_records[s].section_id # SectionId(1)

(* C5: merge_sparse_sections never removes the only section left: for a    *)
(* layout with at least one section, every stage of process() leaves at    *)
(* least one section record, also when it has no body-text paragraph or no *)
(* paragraph at all.                                                       *)
C5_MinimumOneSection ==
    (pc # "start" /\ Len(sections) >= 1) => Len(section_records) >= 1

C5_Witness ==
    /\ pc = "done"
    /\ run = 1
    /\ Len(sections) >= 2
    /\ Len(section_records) = 1
    /\ BodyCount(section_records[1], paragraph_records) = 0
    /\ section_records[1].is_heading_only_original

(* C6: when merge_sparse_sections returns, exactly one section remains or  *)
(* every remaining section has at least two body-text paragraphs (nothing  *)
(* remains for a layout without sections).                                 *)
C6_ConsolidationFixpoint ==
    pc = "consolidated" =>
        \/ Len(section_records) = 1
        \/ \A s \in 1..Len(section_records) :
               BodyCount(section_records[s], paragraph_records) >= 2

C6_Witness ==
    /\ pc = "consolidated"
    /\ run = 1
    /\ Len(section_records) = 2
    /\ SectionId(Len(sections)) \in Range(section_records[2].merged_from_section_ids)
    /\ BodyCount(section_records[2], paragraph_records) = 3

(* C7: when every body-text paragraph built from the layout has at least   *)
(* MIN_EMBEDDING_CHUNK_TOKENS tokens and every section at least two        *)
(* body-text paragraphs, process() returns the sections and paragraphs as  *)
(* built, in the same order, with each merged_from_ids holding only the    *)
(* paragraph's own id and each merged_from_section_ids and                 *)
(* inherited_headings empty.                                               *)
AlreadyNormalized(raw) ==
    /\ \A k \in 1..Len(raw.pars) :
          is_body_text_paragraph(raw.pars[k])
              => token_count(raw.pars[k].text) >= MIN_EMBEDDING_CHUNK_TOKENS
    /\ \A s \in 1..Len(raw.secs) : BodyCount(raw.secs[s], raw.pars) >= 2

C7_NoMergeWhenNormalized ==
    pc = "done" =>
        LET raw == Raw
        IN  AlreadyNormalized(raw) =>
            /\ SecIds(section_records) = SecIds(raw.secs)
            /\ ParIds(paragraph_records) = ParIds(raw.pars)
            /\ \A s \in 1..Len(section_records) :
                  /\ section_records[s].paragraph_ids = raw.secs[s].paragraph_ids
                  /\ section_records[s].merged_from_section_ids = <<>>
                  /\ section_records[s].inherited_headings = <<>>
            /\ \A k \in 1..Len(paragraph_records) :
                  /\ paragraph_records[k].merged_from_ids
                        = <<paragraph_records[k].paragraph_id>>
                  /\ paragraph_records[k].text = raw.pars[k].text
                  /\ paragraph_records[k].section_id = raw.pars[k].section_id

C7_Witness ==
    /\ pc = "done"
    /\ run = 1
    /\ AlreadyNormalized(Raw)
    /\ Len(section_records) >= 2
    /\ \E k \in 1..Len(paragraph_records) : ~is_body_text_paragraph(paragraph_records[k])

(* C8: the run on the re-fed output of a first run returns as many         *)
(* sections and paragraphs as the first run did, with the same texts,      *)
(* kinds and heading status in the same order, and merges no paragraph and *)
(* consolidates no section.                                                *)
C8_IdempotentOnOwnOutput ==
    (pc = "done" /\ run = 2) =>
        /\ Len(section_records) = Len(first_out.secs)
        /\ Len(paragraph_records) = Len(first_out.pars)
        /\ \A s \in 1..Len(section_records) :
              /\ Len(section_records[s].paragraph_ids) = Len(first_out.secs[s].paragraph_ids)
              /\ section_records[s].merged_from_section_ids = <<>>
        /\ \A k \in 1..Len(paragraph_records) :
              /\ paragraph_records[k].text = first_out.pars[k].text
              /\ paragraph_records[k].kind = first_out.pars[k].kind
              /\ paragraph_records[k].is_heading_like = first_out.pars[k].is_heading_like
              /\ Len(paragraph_records[k].merged_from_ids) = 1

----------------------------------------------------------------------------
(* Runs of paragraphs of one section as build_raw_records made them:       *)
(* positions i..j of the paragraph_ids of section s of raw                 *)

RawPar(raw, s, m) == raw.pars[Lookup(raw.pars, {}, raw.secs[s].paragraph_ids[m])]

RunTexts(raw, s, i, j) == [m \in 1..(j - i + 1) |-> RawPar(raw, s, i + m - 1).text]

RECURSIVE SumTokens(_)
SumTokens(texts) ==
    IF texts = <<>> THEN 0 ELSE token_count(Head(texts)) + SumTokens(Tail(texts))

RECURSIVE NonEmpty(_)
NonEmpty(texts) ==
    IF texts = <<>> THEN <<>>
    ELSE (IF Head(texts) = <<>> THEN <<>> ELSE <<Head(texts)>>) \o NonEmpty(Tail(texts))

Runs(raw) ==
    UNION {{<<s, i, j>> : i, j \in 1..Len(raw.secs[s].paragraph_ids)} :
              s \in 1..Len(raw.secs)}

(* k >= 2 consecutive body-text paragraphs, every proper prefix below the  *)
(* minimum, the whole run within the maximum                               *)
IsShortRun(raw, s, i, j) ==
    /\ i < j
    /\ \A m \in i..j : is_body_text_paragraph(RawPar(raw, s, m))
    /\ \A m \in i..(j - 1) :
          SumTokens(RunTexts(raw, s, i, m)) < MIN_EMBEDDING_CHUNK_TOKENS
    /\ SumTokens(RunTexts(raw, s, i, j)) <= MAX_EMBEDDING_CHUNK_TOKENS

(* the run begins where the merger begins a chunk *)
RunStartsChunk(raw, s, i) ==
    \/ i = 1
    \/ ~is_body_text_paragraph(RawPar(raw, s, i - 1))
    \/ token_count(RawPar(raw, s, i - 1).text) >= MIN_EMBEDDING_CHUNK_TOKENS

(* the run ends where the merger ends a chunk *)
RunEndsChunk(raw, s, i, j) ==
    \/ SumTokens(RunTexts(raw, s, i, j)) >= MIN_EMBEDDING_CHUNK_TOKENS
    \/ j = Len(raw.secs[s].paragraph_ids)
    \/ ~is_body_text_paragraph(RawPar(raw, s, j + 1))
    \/ SumTokens(RunTexts(raw, s, i, j + 1)) > MAX_EMBEDDING_CHUNK_TOKENS

(* exactly the first paragraph of the run is left, holding the whole run   *)
(* with the given text                                                     *)
RunMergedInto(raw, s, i, j, text) ==
    LET pids == raw.secs[s].paragraph_ids
        k == Lookup(paragraph_records, {}, pids[i])
    IN  /\ k # 0
        /\ pids[i] \in Range(section_records[s].paragraph_ids)
        /\ \A m \in (i + 1)..j :
              /\ Lookup(paragraph_records, {}, pids[m]) = 0
              /\ pids[m] \notin Range(section_records[s].paragraph_ids)
        /\ paragraph_records[k].text = text
        /\ paragraph_records[k].merged_from_ids = SubSeq(pids, i, j)
        /\ paragraph_records[k].layout_refs
              = Flatten([m \in 1..(j - i + 1) |-> RawPar(raw, s, i + m - 1).layout_refs])
        /\ paragraph_records[k].pages
              = SortedSeq(UNION {Range(RawPar(raw, s, m).pages) : m \in i..j})

(* C9 as amended: a run of k >= 2 consecutive body-text paragraphs, every  *)
(* proper prefix below the minimum and the whole within the maximum, that  *)
(* begins a chunk (first in its section, or right after a heading-like or  *)
(* table-derived paragraph or a body-text paragraph of at least the        *)
(* minimum) and ends one (it reaches the minimum, or is last in its        *)
(* section, or is followed by a heading-like or table-derived paragraph or *)
(* by a body-text paragraph whose absorption would exceed the maximum) is  *)
(* left as exactly its first paragraph, whose text is the non-empty texts  *)
(* of the run joined by single newlines in order, whose merged_from_ids    *)
(* lists the k ids, whose layout_refs is the concatenation of the k lists  *)
(* and whose pages is the sorted union.                                    *)
C9_ShortRunMerged ==
    pc = "chunked" =>
        LET raw == Raw
        IN  \A r \in Runs(raw) :
                (IsShortRun(raw, r[1], r[2], r[3]) /\ RunStartsChunk(raw, r[1], r[2])
                                                   /\ RunEndsChunk(raw, r[1], r[2], r[3]))
                => RunMergedInto(raw, r[1], r[2], r[3],
                                 JoinWith(<<NL>>, NonEmpty(RunTexts(raw, r[1], r[2], r[3]))))

(* C9 as stated: any such run, wherever it lies in its section, is left as *)
(* its first paragraph with the k texts joined by single newlines          *)
C9_Original ==
    pc = "chunked" =>
        LET raw == Raw
        IN  \A r \in Runs(raw) :
                IsShortRun(raw, r[1], r[2], r[3])
                => RunMergedInto(raw, r[1], r[2], r[3],
                                 JoinWith(<<NL>>, RunTexts(raw, r[1], r[2], r[3])))

C9_Witness ==
    /\ pc = "chunked"
    /\ LET raw == Raw
       IN  \E r \in Runs(raw) :
              /\ r[3] - r[2] = 2
              /\ IsShortRun(raw, r[1], r[2], r[3])
              /\ RunStartsChunk(raw, r[1], r[2])
              /\ RunEndsChunk(raw, r[1], r[2], r[3])
              /\ [m \in 1..3 |-> token_count(RunTexts(raw, r[1], r[2], r[3])[m])]
                    = <<20, 30, 40>>
              /\ Len(section_records[r[1]].paragraph_ids) = 1
              /\ token_count(paragraph_records[Lookup(paragraph_records, {},
                     section_records[r[1]].paragraph_ids[1])].text) = 90

----------------------------------------------------------------------------
(* C10: build_raw_records drops a malformed reference, a reference of      *)
(* another kind than paragraphs/tables and a reference past the end of the *)
(* source list, and builds for every section one paragraph per remaining   *)
(* reference, in order: paragraph_ids and the remaining references         *)
(* correspond one to one.                                                  *)
RefResolves(ref, srcPars, srcTabs) ==
    LET parsed == LayoutElementId(ref)
    IN  /\ parsed.ok
        /\ \/ parsed.type = PARAGRAPHS /\ parsed.id_as_num < Len(srcPars)
           \/ parsed.type = TABLES /\ parsed.id_as_num < Len(srcTabs)

RECURSIVE ResolvingRefs(_, _, _)
ResolvingRefs(elems, srcPars, srcTabs) ==
    IF elems = <<>> THEN <<>>
    ELSE (IF RefResolves(Head(elems), srcPars, srcTabs) THEN <<Head(elems)>> ELSE <<>>)
         \o ResolvingRefs(Tail(elems), srcPars, srcTabs)

C10_ReferenceErrorsAbsorbed ==
    pc = "built" =>
        /\ Len(section_records) = Len(sections)
        /\ \A s \in 1..Len(sections) :
              LET kept == ResolvingRefs(sections[s], paragraphs, tables)
                  pids == section_records[s].paragraph_ids
              IN  /\ Len(pids) = Len(kept)
                  /\ \A j \in 1..Len(pids) :
                        LET k == Lookup(paragraph_records, {}, pids[j])
                        IN  /\ k # 0
                            /\ paragraph_records[k].layout_refs = <<kept[j]>>
                            /\ paragraph_records[k].section_id = section_records[s].section_id
                            /\ (paragraph_records[k].kind = PARAGRAPH_KIND_TEXT)
                                  = (LayoutElementId(kept[j]).type = PARAGRAPHS)
        /\ Len(paragraph_records)
              = Len(Flatten([s \in 1..Len(sections) |->
                                ResolvingRefs(sections[s], paragraphs, tables)]))

C10_Witness ==
    /\ pc = "built"
    /\ \E s \in 1..Len(sections) :
          /\ Len(sections[s]) = 3
          /\ ~LayoutElementId(sections[s][1]).ok
          /\ RefResolves(sections[s][2], paragraphs, tables)
          /\ LayoutElementId(sections[s][3]).ok
          /\ LayoutElementId(sections[s][3]).type \in REQUIRED_ELEMENTS
          /\ ~RefResolves(sections[s][3], paragraphs, tables)
          /\ Len(section_records[s].paragraph_ids) = 1

----------------------------------------------------------------------------
(* C11: when the input layout has zero sections, process() does not return *)
(* a result (it reports an EmptyDocument error instead): no run on an      *)
(* empty layout reaches the return of process().                           *)
C11_EmptyInputIsError ==
    sections = <<>> => pc \notin {"done", "summarised"}

----------------------------------------------------------------------------
(* What a step of merge_sparse_sections that removes section S must leave  *)
(* in the section T of the next state; titled tells whether S has a title  *)
ConsolidationRecorded(S, T, titled, recs, recs2) ==
    /\ S.section_id \in Range(T.merged_from_section_ids)
    /\ \A k \in 1..Len(recs) :
          (/\ recs[k].paragraph_id \in Range(S.paragraph_ids)
           /\ recs[k].is_heading_like
           /\ recs[k].text # <<>>) => recs[k].text \in Range(T.inherited_headings)
    /\ titled => S.title[1] \in Range(T.inherited_headings)
    /\ Range(S.pages) \subseteq Range(T.pages)
    /\ \A k \in 1..Len(recs2) :
          recs2[k].paragraph_id \in Range(S.paragraph_ids)
              => recs2[k].section_id = T.section_id

----------------------------------------------------------------------------
(* The reference join of a table: rows in ascending row index, the cells   *)
(* of a row in ascending column index (cells of one column in the order of *)
(* the table), cell texts joined with " | ", rows joined with newlines     *)
RowCellOrder(cells, r) ==
    LET width == Len(cells) + 1
        keys == {CellCol(cells[i]) * width + i :
                    i \in {j \in 1..Len(cells) : CellRow(cells[j]) = r}}
        order == SortedSeq(keys)
    IN  [k \in 1..Len(order) |-> order[k] % width]

TableReferenceJoin(table) ==
    LET cells == table.cells
        row_ids == SortedSeq({CellRow(cells[i]) : i \in 1..Len(cells)})
        row_text(r) == LET order == RowCellOrder(cells, r)
                       IN  JoinWith(<<SP, PIPE, SP>>,
                                    [k \in 1..Len(order) |-> Strip(cells[order[k]].content)])
    IN  JoinWith(<<NL>>, [k \in 1..Len(row_ids) |-> row_text(row_ids[k])])

(* C13: the text built for a table is its reference join: cell texts by    *)
(* row in ascending row index and by ascending column index within a row,  *)
(* joined with " | ", rows joined with newlines, also for a table whose    *)
(* first or last cell text is empty.                                       *)
C13_TableFlattening ==
    pc = "built" =>
        \A k \in 1..Len(paragraph_records) :
            paragraph_records[k].kind = PARAGRAPH_KIND_TABLE_TEXT
                => paragraph_records[k].text
                       = TableReferenceJoin(
                             tables[LayoutElementId(paragraph_records[k].layout_refs[1]).id_as_num + 1])

----------------------------------------------------------------------------
(* The summary text the claim describes: the inherited_headings block when *)
(* there are inherited headings, then the non-empty texts of the section's *)
(* paragraphs that are neither heading-like nor table-derived, in section  *)
(* order, all separated by blank lines                                     *)
RECURSIVE NonHeadingBodyTexts(_, _)
NonHeadingBodyTexts(pids, recs) ==
    IF pids = <<>> THEN <<>>
    ELSE LET hits == {k \in 1..Len(recs) : recs[k].paragraph_id = Head(pids)}
             mine == {k \in hits : /\ recs[k].kind # PARAGRAPH_KIND_TABLE_TEXT
                                   /\ ~recs[k].is_heading_like
                                   /\ recs[k].text # <<>>}
         IN  [k \in 1..Len(SortedSeq(mine)) |-> recs[SortedSeq(mine)[k]].text]
             \o NonHeadingBodyTexts(Tail(pids), recs)

SummaryReference(section, recs) ==
    LET block == IF section.inherited_headings = <<>> THEN <<>>
                 ELSE <<INHERITED_HEADINGS_LABEL \o <<NL>>
                            \o JoinWith(<<NL>>, section.inherited_headings)>>
    IN  Strip(JoinWith(<<NL, NL>>,
                       block \o NonHeadingBodyTexts(section.paragraph_ids, recs)))

(* C14: the text built for a section is its inherited_headings block (only *)
(* when it has inherited headings) followed by the texts of its paragraphs *)
(* that are neither heading-like nor table-derived, in section order,      *)
(* separated by blank lines; heading-like and table-derived paragraphs     *)
(* contribute nothing.                                                     *)
C14_SummaryText ==
    pc = "summarised" =>
        /\ Len(section_text_map) = Len(section_records)
        /\ \A s \in 1..Len(section_records) :
              section_text_map[s] = SummaryReference(section_records[s], paragraph_records)

----------------------------------------------------------------------------
(* C15: after merge_paragraphs_for_embedding_chunks every paragraph that   *)
(* absorbed another one (merged_from_ids has more than one entry) counts   *)
(* at most MAX_EMBEDDING_CHUNK_TOKENS tokens.                              *)
C15_MergedWithinMaximum ==
    pc = "chunked" =>
        \A k \in 1..Len(paragraph_records) :
            Len(paragraph_records[k].merged_from_ids) > 1
                => token_count(paragraph_records[k].text) <= MAX_EMBEDDING_CHUNK_TOKENS

(* a merged paragraph still below the minimum whose section goes on with a *)
(* body-text paragraph: the absorption of that one was declined            *)
C15_Witness ==
    /\ pc = "chunked"
    /\ \E s \in 1..Len(section_records) :
          \E j \in 1..(Len(section_records[s].paragraph_ids) - 1) :
              LET p == paragraph_records[Lookup(paragraph_records, {},
                                                section_records[s].paragraph_ids[j])]
                  q == paragraph_records[Lookup(paragraph_records, {},
                                                section_records[s].paragraph_ids[j + 1])]
              IN  /\ Len(p.merged_from_ids) > 1
                  /\ token_count(p.text) < MIN_EMBEDDING_CHUNK_TOKENS
                  /\ q.kind = PARAGRAPH_KIND_TEXT /\ ~q.is_heading_like
                  /\ token_count(p.text) + token_count(q.text) > MAX_EMBEDDING_CHUNK_TOKENS

----------------------------------------------------------------------------
(* the paragraph at position i of section s of raw is body text and        *)
(* already meets the minimum                                               *)
IsNaturalBody(raw, s, i) ==
    LET p == RawPar(raw, s, i)
    IN  /\ p.kind = PARAGRAPH_KIND_TEXT
        /\ ~p.is_heading_like
        /\ token_count(p.text) >= MIN_EMBEDDING_CHUNK_TOKENS

(* the record is returned as it was built, in its section *)
SurvivesUntouched(p, s) ==
    /\ \E k \in 1..Len(paragraph_records) : paragraph_records[k] = p
    /\ p.paragraph_id \in Range(section_records[s].paragraph_ids)

(* the paragraph at position i was absorbed, as the last one, by the chunk *)
(* of below-minimum body-text paragraphs that begins at some h < i         *)
AbsorbedByPrecedingChunk(raw, s, i) ==
    \E h \in 1..(i - 1) :
        LET pids == raw.secs[s].paragraph_ids
            k == Lookup(paragraph_records, {}, pids[h])
        IN  /\ k # 0
            /\ paragraph_records[k].merged_from_ids = SubSeq(pids, h, i)
            /\ SumTokens(RunTexts(raw, s, h, i - 1)) < MIN_EMBEDDING_CHUNK_TOKENS

(* C16 as amended: the chunk merger never extends a body-text paragraph    *)
(* that already meets the minimum.  Such a paragraph either survives as    *)
(* its own record with text, pages, layout_refs and merged_from_ids        *)
(* unchanged, or is absorbed as the last paragraph of the below-minimum    *)
(* body-text chunk right before it; it always survives when it is first in *)
(* its section or follows a heading-like or table-derived paragraph or a   *)
(* body-text paragraph that itself meets the minimum.                      *)
C16_NaturalChunkUntouched ==
    pc = "chunked" =>
        LET raw == Raw
        IN  \A s \in 1..Len(raw.secs) :
                \A i \in 1..Len(raw.secs[s].paragraph_ids) :
                    IsNaturalBody(raw, s, i) =>
                        LET p == RawPar(raw, s, i)
                            gone == Lookup(paragraph_records, {}, p.paragraph_id) = 0
                        IN  /\ ~gone => SurvivesUntouched(p, s)
                            /\ gone => AbsorbedByPrecedingChunk(raw, s, i)
                            /\ RunStartsChunk(raw, s, i) => ~gone

(* C16 as stated: such a paragraph survives untouched wherever it stands *)
C16_Original ==
    pc = "chunked" =>
        LET raw == Raw
        IN  \A s \in 1..Len(raw.secs) :
                \A i \in 1..Len(raw.secs[s].paragraph_ids) :
                    IsNaturalBody(raw, s, i) => SurvivesUntouched(RawPar(raw, s, i), s)

(* a paragraph that meets the minimum, between two body-text paragraphs,   *)
(* the one after it below the minimum, and it survived untouched           *)
C16_Witness ==
    /\ pc = "chunked"
    /\ LET raw == Raw
       IN  \E s \in 1..Len(raw.secs) :
               \E i \in 2..(Len(raw.secs[s].paragraph_ids) - 1) :
                   /\ IsNaturalBody(raw, s, i)
                   /\ IsNaturalBody(raw, s, i - 1)
                   /\ RawPar(raw, s, i + 1).kind = PARAGRAPH_KIND_TEXT
                   /\ ~RawPar(raw, s, i + 1).is_heading_like
                   /\ token_count(RawPar(raw, s, i + 1).text) \in 1..(MIN_EMBEDDING_CHUNK_TOKENS - 1)
                   /\ SurvivesUntouched(RawPar(raw, s, i), s)

----------------------------------------------------------------------------
(* a heading-like or table-derived record: a hard boundary of the merger *)
IsBoundary(p) == p.is_heading_like \/ p.kind = PARAGRAPH_KIND_TABLE_TEXT

(* C17: after merge_paragraphs_for_embedding_chunks every heading-like or  *)
(* table-derived paragraph is still there, in its section, exactly as it   *)
(* was built, and the merged_from_ids of every paragraph are consecutive   *)
(* paragraphs of one section as built, none of them heading-like or        *)
(* table-derived: no merge across a boundary paragraph or across sections. *)
C17_HardBoundaries ==
    pc = "chunked" =>
        LET raw == Raw
        IN  /\ \A s \in 1..Len(raw.secs) :
                  \A i \in 1..Len(raw.secs[s].paragraph_ids) :
                      IsBoundary(RawPar(raw, s, i)) => SurvivesUntouched(RawPar(raw, s, i), s)
            /\ \A k \in 1..Len(paragraph_records) :
                  Len(paragraph_records[k].merged_from_ids) > 1 =>
                      \E s \in 1..Len(raw.secs) :
                          \E h, j \in 1..Len(raw.secs[s].paragraph_ids) :
                              /\ h < j
                              /\ paragraph_records[k].merged_from_ids
                                    = SubSeq(raw.secs[s].paragraph_ids, h, j)
                              /\ paragraph_records[k].paragraph_id = raw.secs[s].paragraph_ids[h]
                              /\ \A m \in h..j : ~IsBoundary(RawPar(raw, s, m))

(* two below-minimum body-text paragraphs with a table-derived paragraph   *)
(* between them in one section, and nothing was merged                     *)
C17_Witness ==
    /\ pc = "chunked"
    /\ LET raw == Raw
       IN  \E s \in 1..Len(raw.secs) :
               /\ Len(raw.secs[s].paragraph_ids) = 3
               /\ RawPar(raw, s, 2).kind = PARAGRAPH_KIND_TABLE_TEXT
               /\ \A i \in {1, 3} :
                     /\ ~IsBoundary(RawPar(raw, s, i))
                     /\ token_count(RawPar(raw, s, i).text) < MIN_EMBEDDING_CHUNK_TOKENS
               /\ section_records[s].paragraph_ids = raw.secs[s].paragraph_ids
               /\ \A k \in 1..Len(paragraph_records) :
                     Len(paragraph_records[k].merged_from_ids) = 1

----------------------------------------------------------------------------
(* the ids that some record lists in its merged_from_ids after its own *)
AbsorbedIds(pars) ==
    UNION {{pars[k].merged_from_ids[m] : m \in 2..Len(pars[k].merged_from_ids)} :
              k \in 1..Len(pars)}

ListedIds(secs) == UNION {Range(secs[s].paragraph_ids) : s \in 1..Len(secs)}

(* C18: from the end of merge_paragraphs_for_embedding_chunks to the        *)
(* result of process(), an absorbed paragraph's id is the id of no record   *)
(* and in no section's paragraph_ids; every paragraph that was built either *)
(* still has its record or is absorbed, and an absorbed id is listed by     *)
(* exactly one surviving paragraph.                                         *)
C18_AbsorbedDisappear ==
    pc \in {"chunked", "sparse", "consolidated", "done", "summarised"} =>
        LET absorbed == AbsorbedIds(paragraph_records)
            ids == Range(ParIds(paragraph_records))
        IN  /\ absorbed \cap ids = {}
            /\ absorbed \cap ListedIds(section_records) = {}
            /\ ids \cup absorbed = Range(ParIds(Raw.pars))
            /\ \A id \in absorbed :
                  Cardinality({k \in 1..Len(paragraph_records) :
                      id \in Range(paragraph_records[k].merged_from_ids)}) = 1

(* a result of process() in which one paragraph absorbed two others *)
C18_Witness ==
    /\ pc = "done"
    /\ run = 1
    /\ Cardinality(AbsorbedIds(paragraph_records)) >= 2
    /\ Len(paragraph_records) + Cardinality(AbsorbedIds(paragraph_records)) = Len(Raw.pars)
    /\ \E k \in 1..Len(paragraph_records) : Len(paragraph_records[k].merged_from_ids) = 3

----------------------------------------------------------------------------
(* the section has at most one body-text paragraph among the records *)
QualifiesForConsolidation(section, recs) ==
    Cardinality({m \in 1..Len(section.paragraph_ids) :
        \E k \in 1..Len(recs) :
            /\ recs[k].paragraph_id = section.paragraph_ids[m]
            /\ recs[k].kind = PARAGRAPH_KIND_TEXT
            /\ ~recs[k].is_heading_like}) <= 1

(* C19: in a step of merge_sparse_sections at a section i that qualifies   *)
(* while more than one section exists, the target is the section at i + 1  *)
(* if there is one and else the section at i - 1: section i is removed,    *)
(* the target takes its id and its paragraphs (before its own for the next *)
(* section, after its own for the previous one), and every other section   *)
(* is left exactly as it was.                                              *)
C19_TargetChoice ==
    [][(/\ pc = "sparse"
        /\ idx <= Len(section_records)
        /\ Len(section_records) > 1
        /\ QualifiesForConsolidation(section_records[idx], paragraph_records)) =>
        LET n == Len(section_records)
            i == idx
            t == IF i + 1 <= n THEN i + 1 ELSE i - 1
            after(k) == IF k > i THEN k - 1 ELSE k
            S == section_records[i]
            T == section_records[t]
            T2 == section_records'[after(t)]
        IN  /\ Len(section_records') = n - 1
            /\ \A k \in (1..n) \ {i, t} : section_records'[after(k)] = section_records[k]
            /\ T2.section_id = T.section_id
            /\ T2.merged_from_section_ids = Append(T.merged_from_section_ids, S.section_id)
            /\ T2.paragraph_ids = IF t > i THEN S.paragraph_ids \o T.paragraph_ids
                                   ELSE T.paragraph_ids \o S.paragraph_ids]_vars

(* a three-section document right after its last section was folded into  *)
(* the section before it, the first section left alone                     *)
C19_Witness ==
    /\ pc = "sparse"
    /\ run = 1
    /\ Len(sections) = 3
    /\ Len(section_records) = 2
    /\ section_records[1].section_id = SectionId(1)
    /\ section_records[1].merged_from_section_ids = <<>>
    /\ section_records[2].section_id = SectionId(2)
    /\ section_records[2].merged_from_section_ids = <<SectionId(3)>>

----------------------------------------------------------------------------
(* the number an identifier ends with: its place in creation order *)
IdNumber(id) == ParseInt(SubSeq(id, 5, Len(id)))

SectionOrderOf(secs, section_id) ==
    secs[CHOOSE s \in 1..Len(secs) : secs[s].section_id = section_id].section_order

(* C20: the paragraph list returned by process() is ordered by             *)
(* (section_order, order_in_section), its ids are strictly increasing in   *)
(* creation order, and its layout_refs, concatenated, are the resolved     *)
(* references of the input in document order.                              *)
C20_ReadingOrder ==
    pc = "done" =>
        /\ \A k \in 1..(Len(paragraph_records) - 1) :
              LET p == paragraph_records[k]
                  q == paragraph_records[k + 1]
                  sp == SectionOrderOf(section_records, p.section_id)
                  sq == SectionOrderOf(section_records, q.section_id)
              IN  /\ \/ sp < sq
                     \/ sp = sq /\ p.order_in_section < q.order_in_section
                  /\ IdNumber(p.paragraph_id) < IdNumber(q.paragraph_id)
        /\ Flatten([k \in 1..Len(paragraph_records) |-> paragraph_records[k].layout_refs])
              = Flatten([s \in 1..Len(sections) |->
                            ResolvingRefs(sections[s], paragraphs, tables)])

(* a result after a chunk merge, a fold into the following section and a   *)
(* fold into the preceding one                                             *)
C20_Witness ==
    /\ pc = "done"
    /\ run = 1
    /\ Len(section_records) = 1
    /\ section_records[1].section_id = SectionId(2)
    /\ section_records[1].merged_from_section_ids = <<SectionId(1), SectionId(3)>>
    /\ \E k \in 1..Len(paragraph_records) : Len(paragraph_records[k].layout_refs) > 1
    /\ Len(paragraph_records) >= 3

----------------------------------------------------------------------------
(* Comparison of identifiers as strings: at the first place where they     *)
(* differ the smaller character decides (digits precede "_" and letters),  *)
(* and a proper prefix precedes its extensions                             *)
CharRank(c) == IF c \in Digits THEN DigitValue(c) ELSE 10

LexLess(a, b) ==
    \/ \E i \in 1..Len(a) :
          /\ i <= Len(b)
          /\ SubSeq(a, 1, i - 1) = SubSeq(b, 1, i - 1)
          /\ a[i] # b[i]
          /\ CharRank(a[i]) < CharRank(b[i])
    \/ Len(a) < Len(b) /\ a = SubSeq(b, 1, Len(a))

(* id is "par_" followed by the decimal digits of n, padded with zeros *)
IsParagraphIdOf(id, n) ==
    /\ Len(id) >= 5
    /\ SubSeq(id, 1, 4) = <<"p", "a", "r", "_">>
    /\ \A i \in 5..Len(id) : id[i] \in Digits
    /\ IdNumber(id) = n

(* the counter's value before the first paragraph of the built records *)
FirstCounter == paragraph_counter - Len(paragraph_records)

(* the k-th built record carries the k-th value of the one counter: a     *)
(* skipped reference consumes no number, no section starts again          *)
CounterNumbering ==
    /\ \A k \in 1..Len(paragraph_records) :
          IsParagraphIdOf(paragraph_records[k].paragraph_id, FirstCounter + k - 1)
    /\ \A j, k \in 1..Len(paragraph_records) :
          j # k => paragraph_records[j].paragraph_id # paragraph_records[k].paragraph_id

(* C21: paragraph ids come from one counter shared by all sections: they   *)
(* are par_ and the zero-padded counter, go up by one per built paragraph  *)
(* (a skipped reference consumes no number), are all different, and sort   *)
(* as strings in creation order whatever the counter has reached.          *)
C21_ParagraphIdsSortInCreationOrder ==
    pc = "built" =>
        /\ CounterNumbering
        /\ \A k \in 1..(Len(paragraph_records) - 1) :
              LexLess(paragraph_records[k].paragraph_id,
                      paragraph_records[k + 1].paragraph_id)

----------------------------------------------------------------------------
(* Heading status as described: by the role when there is one (a role that *)
(* is absent or empty is no role), else by the heuristic on the trimmed    *)
(* text                                                                    *)
RolePresent(role) == role # None /\ role # Some("")

IsHeadingOrTitleRole(role) == role = Some("heading") \/ role = Some("title")

UppercaseHeuristic(trimmed) ==
    /\ trimmed # <<>>
    /\ \E i \in 1..Len(trimmed) : trimmed[i].w \in UpperWords
    /\ \A i \in 1..Len(trimmed) : IsSpace(trimmed[i]) \/ trimmed[i].w \in UpperWords
    /\ SplitCount(trimmed) <= 12

DescribedHeadingStatus(source) ==
    \/ RolePresent(source.role) /\ IsHeadingOrTitleRole(source.role)
    \/ ~RolePresent(source.role) /\ UppercaseHeuristic(Strip(source.content))

(* C22: a paragraph built from a paragraph reference is heading-like       *)
(* exactly when its source has a non-empty role that is "heading" or       *)
(* "title", or has no role (none, or the empty string) and its trimmed     *)
(* text is non-empty, all uppercase and of at most 12 words; with a role   *)
(* the heuristic plays no part.  A table-derived paragraph is never        *)
(* heading-like.                                                           *)
C22_HeadingDetection ==
    pc = "built" =>
        \A k \in 1..Len(paragraph_records) :
            LET p == paragraph_records[k]
                parsed == LayoutElementId(p.layout_refs[1])
            IN  IF parsed.type = PARAGRAPHS
                THEN p.is_heading_like = DescribedHeadingStatus(paragraphs[parsed.id_as_num + 1])
                ELSE p.kind = PARAGRAPH_KIND_TABLE_TEXT /\ ~p.is_heading_like

(* an uppercase text under a role that is no heading role is not a         *)
(* heading, next to a 12-word uppercase text without role that is one      *)
C22_Witness ==
    /\ pc = "built"
    /\ Len(paragraph_records) = 3
    /\ paragraphs[1].role = Some("sectionHeading")
    /\ paragraph_records[1].text = Words("A", 12)
    /\ ~paragraph_records[1].is_heading_like
    /\ paragraphs[2].role = None
    /\ paragraph_records[2].text = Words("A", 12)
    /\ paragraph_records[2].is_heading_like
    /\ paragraph_records[3].kind = PARAGRAPH_KIND_TABLE_TEXT

----------------------------------------------------------------------------
(* the section lists a record that is heading-like and has non-empty text *)
HasHeadingWithText(section, recs) ==
    \E k \in 1..Len(recs) :
        /\ recs[k].paragraph_id \in Range(section.paragraph_ids)
        /\ recs[k].is_heading_like
        /\ recs[k].text # <<>>

(* C23: after process() every returned section that lists a heading-like   *)
(* paragraph with non-empty text has a non-empty title, and a section      *)
(* whose title is absent or empty lists no such paragraph and has          *)
(* inherited no heading from a consolidated section.                       *)
C23_TitleBackfill ==
    pc = "done" =>
        \A s \in 1..Len(section_records) :
            LET section == section_records[s]
            IN  /\ HasHeadingWithText(section, paragraph_records) => IsTruthy(section.title)
                /\ ~IsTruthy(section.title) =>
                      /\ ~HasHeadingWithText(section, paragraph_records)
                      /\ section.inherited_headings = <<>>

----------------------------------------------------------------------------
(* the ids of a list that are the id of some record, in the list's order *)
RECURSIVE ResolvingIds(_, _)
ResolvingIds(pids, recs) ==
    IF pids = <<>> THEN <<>>
    ELSE (IF \E k \in 1..Len(recs) : recs[k].paragraph_id = Head(pids)
          THEN <<Head(pids)>> ELSE <<>>) \o ResolvingIds(Tail(pids), recs)

(* C24: finalize_ordering, applied to sections whose paragraph_ids may     *)
(* hold ids without a paragraph record, leaves in every section's          *)
(* paragraph_ids exactly the ids that resolve, in their order, and gives   *)
(* the m-th of them order_in_section m (1..M, no gaps) and the section's   *)
(* id as section_id.                                                       *)
C24_FinalizeContiguity ==
    pc = "done" =>
        \A s \in 1..Len(section_records) :
            LET ids == section_records[s].paragraph_ids
            IN  /\ ids = ResolvingIds(Raw.secs[s].paragraph_ids, paragraph_records)
                /\ \A m \in 1..Len(ids) :
                      \E k \in 1..Len(paragraph_records) :
                          /\ paragraph_records[k].paragraph_id = ids[m]
                          /\ paragraph_records[k].order_in_section = m
                          /\ paragraph_records[k].section_id = section_records[s].section_id

----------------------------------------------------------------------------
(* the built record with the given id *)
RawById(raw, id) == raw.pars[CHOOSE k \in 1..Len(raw.pars) : raw.pars[k].paragraph_id = id]

(* how often the id occurs in the merged_from_ids of the records *)
TrailCount(pars, id) ==
    Cardinality({<<k, m>> \in (1..Len(pars)) \X (1..Len(Raw.pars)) :
                    m <= Len(pars[k].merged_from_ids) /\ pars[k].merged_from_ids[m] = id})

(* C25: after process() every paragraph id that build_raw_records created  *)
(* occurs in the merged_from_ids of exactly one returned paragraph, once;   *)
(* every returned paragraph's merged_from_ids begins with its own id and    *)
(* is strictly increasing in creation order; its text is the non-empty      *)
(* texts of those built paragraphs joined by newlines in that order and its *)
(* layout_refs are theirs in that order: nothing is lost or duplicated.     *)
C25_Conservation ==
    pc = "done" =>
        LET raw == Raw
        IN  /\ \A j \in 1..Len(raw.pars) :
                  TrailCount(paragraph_records, raw.pars[j].paragraph_id) = 1
            /\ \A k \in 1..Len(paragraph_records) :
                  LET p == paragraph_records[k]
                      trail == p.merged_from_ids
                  IN  /\ trail # <<>>
                      /\ trail[1] = p.paragraph_id
                      /\ \A m \in 1..(Len(trail) - 1) :
                            IdNumber(trail[m]) < IdNumber(trail[m + 1])
                      /\ Range(trail) \subseteq Range(ParIds(raw.pars))
                      /\ p.text = JoinWith(<<NL>>, NonEmpty([m \in 1..Len(trail) |->
                                                               RawById(raw, trail[m]).text]))
                      /\ p.layout_refs = Flatten([m \in 1..Len(trail) |->
                                                    RawById(raw, trail[m]).layout_refs])

(* a result in which a paragraph that absorbed another one was moved into *)
(* another section by a consolidation                                      *)
C25_Witness ==
    /\ pc = "done"
    /\ run = 1
    /\ \E k \in 1..Len(paragraph_records) :
          /\ Len(paragraph_records[k].merged_from_ids) = 2
          /\ RawById(Raw, paragraph_records[k].paragraph_id).section_id
                # paragraph_records[k].section_id
    /\ Len(paragraph_records) < Len(Raw.pars)

----------------------------------------------------------------------------
(* every heading text of a built section that was not returned is among   *)
(* the inherited_headings of the returned section that holds the paragraph *)
InheritedHeadingsKept(raw) ==
    \A x \in 1..Len(raw.secs) :
        raw.secs[x].section_id \notin Range(SecIds(section_records)) =>
            \A m \in 1..Len(raw.secs[x].paragraph_ids) :
                LET p == RawPar(raw, x, m)
                IN  (p.is_heading_like /\ p.text # <<>>) =>
                        \E s \in 1..Len(section_records) :
                            /\ p.paragraph_id \in Range(section_records[s].paragraph_ids)
                            /\ p.text \in Range(section_records[s].inherited_headings)

(* C26: after process() every section id that build_raw_records created is *)
(* the section_id of a returned section or is listed in the                *)
(* merged_from_section_ids of a returned section, also for a section that  *)
(* was folded into a section that was itself folded away later; and the    *)
(* heading texts of the removed sections are still inherited.              *)
C26_SectionTrailComplete ==
    pc = "done" =>
        LET raw == Raw
        IN  /\ \A x \in 1..Len(raw.secs) :
                  \/ raw.secs[x].section_id \in Range(SecIds(section_records))
                  \/ \E s \in 1..Len(section_records) :
                         raw.secs[x].section_id
                             \in Range(section_records[s].merged_from_section_ids)
            /\ InheritedHeadingsKept(raw)

----------------------------------------------------------------------------
(* the returned paragraphs of the section that are body text *)
ReturnedBodies(section) ==
    {k \in 1..Len(paragraph_records) :
        /\ paragraph_records[k].paragraph_id \in Range(section.paragraph_ids)
        /\ paragraph_records[k].kind = PARAGRAPH_KIND_TEXT
        /\ ~paragraph_records[k].is_heading_like}

(* C27: after process() a returned section has is_heading_only_original    *)
(* set exactly when it has no body-text paragraph, and then it is the only *)
(* returned section: no section flagged while sparse is returned with body *)
(* paragraphs.                                                             *)
C27_HeadingOnlyFlag ==
    pc = "done" =>
        \A s \in 1..Len(section_records) :
            /\ section_records[s].is_heading_only_original
                  = (ReturnedBodies(section_records[s]) = {})
            /\ section_records[s].is_heading_only_original => Len(section_records) = 1

(* a heading-only first section was folded into a section with body       *)
(* paragraphs, which is returned unflagged next to another section         *)
C27_Witness ==
    /\ pc = "done"
    /\ run = 1
    /\ Len(section_records) = 2
    /\ BodyCount(Raw.secs[1], Raw.pars) = 0
    /\ section_records[1].merged_from_section_ids = <<SectionId(1)>>
    /\ ~section_records[1].is_heading_only_original
    /\ Cardinality(ReturnedBodies(section_records[1])) >= 2

----------------------------------------------------------------------------
(* what is left to do for the loop of merge_sparse_sections: two for every *)
(* section, less the sections already passed                               *)
SparseWork(secs, i) == 2 * Len(secs) - i

(* C28: merge_sparse_sections terminates.  Every iteration of its loop     *)
(* either advances the index and leaves the sections alone or removes one  *)
(* section and leaves the index or takes it back by one, so that the work  *)
(* left goes down with every iteration, also after the rewind of a         *)
(* backward merge; and a call that has entered the loop leaves it.         *)
C28_ConsolidationTerminates ==
    /\ [][(pc = "sparse" /\ pc' = "sparse") =>
            /\ \/ idx' = idx + 1 /\ Len(section_records') = Len(section_records)
               \/ /\ Len(section_records') = Len(section_records) - 1
                  /\ idx' \in {idx, idx - 1}
                  /\ idx' >= 1
            /\ SparseWork(section_records', idx') < SparseWork(section_records, idx)
            /\ SparseWork(section_records', idx') >= 0]_vars
    /\ (pc = "sparse") ~> (pc = "consolidated")

(* the loop has ended after a backward merge: the last of three sections   *)
(* was folded into the one before it, which the scan then visited again    *)
C28_Witness ==
    /\ pc = "consolidated"
    /\ Len(sections) = 3
    /\ Len(section_records) = 2
    /\ section_records[2].section_id = SectionId(2)
    /\ section_records[2].merged_from_section_ids = <<SectionId(3)>>
    /\ idx = 3

(* C29: a second call of process() on the same LayoutProcessor returns the *)
(* sections and paragraphs the first call returned, and every section_id   *)
(* and every paragraph_id occurs once in what it returns.                  *)
C29_RepeatedProcess ==
    (pc = "done" /\ run = 3) =>
        /\ section_records = first_out.secs
        /\ paragraph_records = first_out.pars
        /\ \A i, j \in 1..Len(section_records) :
              section_records[i].section_id = section_records[j].section_id => i = j
        /\ \A i, j \in 1..Len(paragraph_records) :
              paragraph_records[i].paragraph_id = paragraph_records[j].paragraph_id => i = j

----------------------------------------------------------------------------
(* a body-text record whose text is below the minimum *)
IsShortBody(p) ==
    /\ p.kind = PARAGRAPH_KIND_TEXT
    /\ ~p.is_heading_like
    /\ token_count(p.text) < MIN_EMBEDDING_CHUNK_TOKENS

(* the record that the j-th paragraph id of section s names *)
ListedPar(s, j) ==
    paragraph_records[CHOOSE k \in 1..Len(paragraph_records) :
                         paragraph_records[k].paragraph_id = section_records[s].paragraph_ids[j]]

(* nothing is left to absorb for the j-th paragraph of section s *)
AbsorptionStopped(s, j) ==
    \/ j = Len(section_records[s].paragraph_ids)
    \/ /\ j < Len(section_records[s].paragraph_ids)
       /\ \/ IsBoundary(ListedPar(s, j + 1))
          \/ token_count(join_text(ListedPar(s, j).text, ListedPar(s, j + 1).text))
                > MAX_EMBEDDING_CHUNK_TOKENS

(* the text of the paragraph before the last of its absorptions, from the  *)
(* paragraphs as built                                                     *)
TextBeforeLastAbsorption(p) ==
    LET trail == p.merged_from_ids
    IN  JoinWith(<<NL>>, NonEmpty([m \in 1..(Len(trail) - 1) |-> RawById(Raw, trail[m]).text]))

ChunksMaximal ==
    \A s \in 1..Len(section_records) :
        \A j \in 1..Len(section_records[s].paragraph_ids) :
            IsShortBody(ListedPar(s, j)) => AbsorptionStopped(s, j)

AbsorbersWereShort ==
    \A k \in 1..Len(paragraph_records) :
        Len(paragraph_records[k].merged_from_ids) > 1 =>
            token_count(TextBeforeLastAbsorption(paragraph_records[k]))
                < MIN_EMBEDDING_CHUNK_TOKENS

(* C30: when merge_paragraphs_for_embedding_chunks has returned, every     *)
(* body-text paragraph left below the minimum is the last of its section,  *)
(* or is followed by a heading-like or table-derived paragraph, or is      *)
(* followed by a body-text paragraph that would take it over the maximum;  *)
(* every paragraph that absorbed others was below the minimum before its   *)
(* last absorption; and a second application of the merger changes neither *)
(* the sections nor the paragraphs.                                        *)
C30_ChunkMergerMaximal ==
    /\ [](pc = "chunked" => ChunksMaximal /\ AbsorbersWereShort)
    /\ [][(pc = "chunked" /\ pc' = "rechunked") =>
            /\ section_records' = section_records
            /\ paragraph_records' = paragraph_records]_vars

(* the merger was applied a second time to a section in which a paragraph  *)
(* that had absorbed another one stays below the minimum, because the body *)
(* paragraph after it would take it over the maximum                       *)
C30_Witness ==
    /\ pc = "rechunked"
    /\ \E s \in 1..Len(section_records) :
          \E j \in 1..(Len(section_records[s].paragraph_ids) - 1) :
              /\ IsShortBody(ListedPar(s, j))
              /\ Len(ListedPar(s, j).merged_from_ids) > 1
              /\ ~IsBoundary(ListedPar(s, j + 1))
              /\ token_count(join_text(ListedPar(s, j).text, ListedPar(s, j + 1).text))
                    > MAX_EMBEDDING_CHUNK_TOKENS

====
